---- MODULE Spec2Model ----
(***************************************************************************)
(* Model of the SpeedRead proxy (multi-source variant, src/unnamed/        *)
(* part_003): the identifier codec, the Content-Disposition builder, the   *)
(* Wikisource classifier and link recovery, the /search fan-out and the    *)
(* /download-best handler; with them the search adapters on their own,     *)
(* pickBestFormat of src/server.js, searchStandardEbooks and the           *)
(* sequential /search of src/unnamed/part_001, and the catalog-only        *)
(* /download-best of src/unnamed/part_000.                                 *)
(*                                                                         *)
(* A JavaScript string is modelled as the sequence of its UTF-16 code      *)
(* units (naturals), so that trimming, prefix tests, splitting, percent    *)
(* encoding and the regular expressions of the source are computed on the  *)
(* characters themselves.                                                  *)
(***************************************************************************)
EXTENDS Integers, Sequences, FiniteSets, TLC

VARIABLES
    \* ---- identifier codec exercised on its own (makeId, then parseId)
    idPc, idTag, idPayload, idEncoded, idParsed,
    \* ---- classifier and link picker exercised on their own
    clsPc, clsTitle, clsText, clsLinks, clsResult, clsDelivered, clsBest,
    \* ---- Content-Disposition builder exercised on its own
    hdrPc, hdrTitle, hdrExt, hdrValue,
    \* ---- one /search request; sOrder is the order the calls settled in
    sPc, sQuery, sCalls, sOrder, sResponse,
    \* ---- one /download-best request
    dlPc, dlId, dlParsed, dlHop, dlHopTitle, dlResolvedTitle, dlText,
    dlExit, dlUpstream, dlLinkFetches, dlRefetches, dlMime, dlFormats,
    dlPages, dlResponse,
    \* ---- single functions and the other handlers exercised on their own:
    \* pickBestFormat with its caller, searchGutenberg, searchStandardEbooks,
    \* searchWikisource, and the catalog-only /download-best
    fmt, cat, se, ws, co,
    \* ---- one request of the sequential /search of src/unnamed/part_001
    sq

idVars  == <<idPc, idTag, idPayload, idEncoded, idParsed>>
clsVars == <<clsPc, clsTitle, clsText, clsLinks, clsResult, clsDelivered, clsBest>>
hdrVars == <<hdrPc, hdrTitle, hdrExt, hdrValue>>
sVars   == <<sPc, sQuery, sCalls, sOrder, sResponse>>
dlVars  == <<dlPc, dlId, dlParsed, dlHop, dlHopTitle, dlResolvedTitle, dlText,
             dlExit, dlUpstream, dlLinkFetches, dlRefetches, dlMime, dlFormats,
             dlPages, dlResponse>>
adVars  == <<fmt, cat, se, ws, co, sq>>
vars    == <<idVars, clsVars, hdrVars, sVars, dlVars, adVars>>

\* what a step of one part leaves alone: the other parts
IdOnly  == UNCHANGED <<clsVars, hdrVars, sVars, dlVars, adVars>>
ClsOnly == UNCHANGED <<idVars, hdrVars, sVars, dlVars, adVars>>
HdrOnly == UNCHANGED <<idVars, clsVars, sVars, dlVars, adVars>>
SOnly   == UNCHANGED <<idVars, clsVars, hdrVars, dlVars, adVars>>
DlOnly  == UNCHANGED <<idVars, clsVars, hdrVars, sVars, adVars>>
FmtOnly == UNCHANGED <<idVars, clsVars, hdrVars, sVars, dlVars, cat, se, ws, co, sq>>
CatOnly == UNCHANGED <<idVars, clsVars, hdrVars, sVars, dlVars, fmt, se, ws, co, sq>>
SeOnly  == UNCHANGED <<idVars, clsVars, hdrVars, sVars, dlVars, fmt, cat, ws, co, sq>>
WsOnly  == UNCHANGED <<idVars, clsVars, hdrVars, sVars, dlVars, fmt, cat, se, co, sq>>
CoOnly  == UNCHANGED <<idVars, clsVars, hdrVars, sVars, dlVars, fmt, cat, se, ws, sq>>
SqOnly  == UNCHANGED <<idVars, clsVars, hdrVars, sVars, dlVars, fmt, cat, se, ws, co>>

\* a part that is not exercised
Off == [pc |-> "off"]

(***************************************************************************)
(* Bounds of the model.                                                    *)
(***************************************************************************)
\* longest payload handed to makeId
MaxPayloadLen == 2
\* longest title handed to setDownloadHeaders
MaxTitleLen == 2
\* longest query of a /search request
MaxQueryLen == 2
\* most items one adapter returns
MaxItems == 2
\* longest link list the upstream returns
MaxLinks == 2
\* most bullet lines of a generated page text
MaxBullets == 10
\* most entries of a book's formats map
MaxFormats == 3
\* most books in one page of the catalog's answer
MaxResults == 3
\* highest page number requested from a paginating adapter
MaxPage == 3
\* most entries of the parsed OPDS feed
MaxEntries == 60
\* highest total hit count the wiki reports
MaxTotal == 45

(***************************************************************************)
(* Strings: sequences of UTF-16 code units.                                *)
(***************************************************************************)
SetMin(S) == CHOOSE m \in S : \A n \in S : m <= n

\* all sequences over S of length 0..n
SeqsUpTo(S, n) == UNION {[1..k -> S] : k \in 0..n}

RECURSIVE Repeat(_, _)
Repeat(s, n) == IF n <= 0 THEN <<>> ELSE s \o Repeat(s, n - 1)

\* n copies of the code unit c, built without recursion
Fill(c, n) == [i \in 1..n |-> c]

\* ECMAScript WhiteSpace and LineTerminator: what String.prototype.trim
\* strips and what \s matches
IsWhiteSpace(c) ==
    \/ c \in {9, 10, 11, 12, 13, 32, 160, 5760, 8232, 8233, 8239, 8287, 12288, 65279}
    \/ (8192 <= c /\ c <= 8202)

\* the number of white-space units s starts with
LeadingWs(s) ==
    CHOOSE k \in 0..Len(s) :
        /\ k = Len(s) \/ ~IsWhiteSpace(s[k + 1])
        /\ \A j \in 1..k : IsWhiteSpace(s[j])

\* the number of white-space units s ends with
TrailingWs(s) ==
    CHOOSE k \in 0..Len(s) :
        /\ k = Len(s) \/ ~IsWhiteSpace(s[Len(s) - k])
        /\ \A j \in 1..k : IsWhiteSpace(s[Len(s) + 1 - j])

\* String.prototype.trim
trim(s) ==
    IF LeadingWs(s) = Len(s) THEN <<>>
    ELSE SubSeq(s, LeadingWs(s) + 1, Len(s) - TrailingWs(s))

\* String.prototype.startsWith
startsWith(s, p) == Len(p) <= Len(s) /\ SubSeq(s, 1, Len(p)) = p

\* String.prototype.includes for one code unit
includesUnit(s, c) == \E i \in 1..Len(s) : s[i] = c

\* String.prototype.split(sep) for a one-unit separator: the segments in order
RECURSIVE split(_, _)
split(s, sep) ==
    LET at == {i \in 1..Len(s) : s[i] = sep}
    IN  IF at = {} THEN <<s>>
        ELSE LET i == SetMin(at)
             IN  <<SubSeq(s, 1, i - 1)>> \o split(SubSeq(s, i + 1, Len(s)), sep)

\* the index of the first unit at or after i that is not white space
\* (Len(s) + 1 when there is none): where a greedy \s* stops
SkipWs(s, i) ==
    CHOOSE j \in i..(Len(s) + 1) :
        /\ j = Len(s) + 1 \/ ~IsWhiteSpace(s[j])
        /\ \A m \in i..(j - 1) : IsWhiteSpace(s[m])

\* Canonicalize of a regular expression with the i flag and without the u
\* flag: the upper case of the unit, for the Latin and Cyrillic letters
Canon(c) ==
    IF 97 <= c /\ c <= 122 THEN c - 32
    ELSE IF 1072 <= c /\ c <= 1103 THEN c - 32
    ELSE IF 1104 <= c /\ c <= 1119 THEN c - 80
    ELSE IF c = 1169 THEN 1168
    ELSE c

\* the word w matches at index i of s, ignoring case
MatchesAtCI(s, i, w) ==
    /\ i >= 1
    /\ i + Len(w) - 1 <= Len(s)
    /\ \A k \in 1..Len(w) : Canon(s[i + k - 1]) = Canon(w[k])

\* /w/i.test(s)
ContainsCI(s, w) == \E i \in 1..Len(s) : MatchesAtCI(s, i, w)

(***************************************************************************)
(* encodeURIComponent and decodeURIComponent (ECMAScript Encode / Decode). *)
(* A result is [ok, v]: ok = FALSE is the URIError the built-in throws.    *)
(***************************************************************************)
UriError == [ok |-> FALSE, v |-> <<>>]
Ok(v) == [ok |-> TRUE, v |-> v]

\* p followed by the rest r, when r did not throw
Prepend(p, r) == IF r.ok THEN Ok(p \o r.v) ELSE r

IsHighSurrogate(c) == 55296 <= c /\ c <= 56319
IsLowSurrogate(c) == 56320 <= c /\ c <= 57343

\* uriUnescaped of encodeURIComponent: A-Z a-z 0-9 - _ . ! ~ * ' ( )
IsUriUnreserved(c) ==
    \/ (65 <= c /\ c <= 90) \/ (97 <= c /\ c <= 122) \/ (48 <= c /\ c <= 57)
    \/ c \in {45, 95, 46, 33, 126, 42, 39, 40, 41}

\* the upper-case hexadecimal digit of n in 0..15
HexDigit(n) == IF n < 10 THEN 48 + n ELSE 55 + n

\* "%XX" for the byte b
PercentByte(b) == <<37, HexDigit(b \div 16), HexDigit(b % 16)>>

\* the UTF-8 bytes of the code point cp
Utf8(cp) ==
    IF cp < 128 THEN <<cp>>
    ELSE IF cp < 2048 THEN <<192 + (cp \div 64), 128 + (cp % 64)>>
    ELSE IF cp < 65536 THEN
        <<224 + (cp \div 4096), 128 + ((cp \div 64) % 64), 128 + (cp % 64)>>
    ELSE <<240 + (cp \div 262144), 128 + ((cp \div 4096) % 64),
           128 + ((cp \div 64) % 64), 128 + (cp % 64)>>

RECURSIVE PercentBytes(_)
PercentBytes(bytes) ==
    IF bytes = <<>> THEN <<>>
    ELSE PercentByte(Head(bytes)) \o PercentBytes(Tail(bytes))

RECURSIVE EncodeFrom(_, _)
EncodeFrom(s, i) ==
    IF i > Len(s) THEN Ok(<<>>)
    ELSE LET c == s[i]
         IN  IF IsUriUnreserved(c) THEN Prepend(<<c>>, EncodeFrom(s, i + 1))
             ELSE IF IsLowSurrogate(c) THEN UriError
             ELSE IF IsHighSurrogate(c) THEN
                 IF i + 1 <= Len(s) /\ IsLowSurrogate(s[i + 1])
                 THEN Prepend(PercentBytes(Utf8((c - 55296) * 1024 + (s[i + 1] - 56320) + 65536)),
                              EncodeFrom(s, i + 2))
                 ELSE UriError
             ELSE Prepend(PercentBytes(Utf8(c)), EncodeFrom(s, i + 1))

encodeURIComponent(s) == EncodeFrom(s, 1)

\* the value of a hexadecimal digit, -1 for any other unit
HexVal(c) ==
    IF 48 <= c /\ c <= 57 THEN c - 48
    ELSE IF 65 <= c /\ c <= 70 THEN c - 55
    ELSE IF 97 <= c /\ c <= 102 THEN c - 87
    ELSE 0 - 1

\* the byte of the escape "%XX" at index i, -1 when there is none
ByteAt(s, i) ==
    IF i + 2 <= Len(s) /\ s[i] = 37 /\ HexVal(s[i + 1]) >= 0 /\ HexVal(s[i + 2]) >= 0
    THEN 16 * HexVal(s[i + 1]) + HexVal(s[i + 2])
    ELSE 0 - 1

\* the number of bytes of the UTF-8 sequence a lead byte opens, 0 for none
Utf8Length(b) ==
    IF 192 <= b /\ b <= 223 THEN 2
    ELSE IF 224 <= b /\ b <= 239 THEN 3
    ELSE IF 240 <= b /\ b <= 247 THEN 4
    ELSE 0

\* the code point of the n-byte sequence of escapes at index i, -1 when the
\* escapes are not a valid UTF-8 encoding
Utf8CodePoint(s, i, n) ==
    LET b(k) == ByteAt(s, i + 3 * k)
        contOk == \A k \in 1..(n - 1) : 128 <= b(k) /\ b(k) <= 191
        cp == IF n = 2 THEN (b(0) - 192) * 64 + (b(1) - 128)
              ELSE IF n = 3 THEN (b(0) - 224) * 4096 + (b(1) - 128) * 64 + (b(2) - 128)
              ELSE (b(0) - 240) * 262144 + (b(1) - 128) * 4096
                   + (b(2) - 128) * 64 + (b(3) - 128)
        least == IF n = 2 THEN 128 ELSE IF n = 3 THEN 2048 ELSE 65536
    IN  IF ~contOk THEN 0 - 1
        ELSE IF cp < least \/ cp > 1114111 \/ (55296 <= cp /\ cp <= 57343) THEN 0 - 1
        ELSE cp

\* the UTF-16 code units of the code point cp
Utf16(cp) ==
    IF cp < 65536 THEN <<cp>>
    ELSE <<55296 + ((cp - 65536) \div 1024), 56320 + ((cp - 65536) % 1024)>>

RECURSIVE DecodeFrom(_, _)
DecodeFrom(s, i) ==
    IF i > Len(s) THEN Ok(<<>>)
    ELSE IF s[i] # 37 THEN Prepend(<<s[i]>>, DecodeFrom(s, i + 1))
    ELSE LET b == ByteAt(s, i)
         IN  IF b < 0 THEN UriError
             ELSE IF b < 128 THEN Prepend(<<b>>, DecodeFrom(s, i + 3))
             ELSE LET n == Utf8Length(b)
                  IN  IF n = 0 THEN UriError
                      ELSE LET cp == Utf8CodePoint(s, i, n)
                           IN  IF cp < 0 THEN UriError
                               ELSE Prepend(Utf16(cp), DecodeFrom(s, i + 3 * n))

decodeURIComponent(s) == DecodeFrom(s, 1)

(***************************************************************************)
(* Identifier codec: makeId and parseId.                                   *)
(***************************************************************************)
\* the source tags of the unified identifier
Tags == {"gutenberg", "wsrc-ru", "wsrc-ua"}

\* the characters of a tag
TagUnits(tag) ==
    CASE tag = "gutenberg" -> <<103, 117, 116, 101, 110, 98, 101, 114, 103>>
      [] tag = "wsrc-ru" -> <<119, 115, 114, 99, 45, 114, 117>>
      [] tag = "wsrc-ua" -> <<119, 115, 114, 99, 45, 117, 97>>
      [] OTHER -> <<97, 114, 99, 104, 105, 118, 101>>

\* makeId(source, raw): [ok, v], ok = FALSE when it throws (an unknown
\* source, or the URIError of encodeURIComponent)
makeId(source, raw) ==
    IF source = "gutenberg" THEN Ok(TagUnits("gutenberg") \o <<58>> \o raw)
    ELSE IF source \in {"wsrc-ru", "wsrc-ua"}
        THEN Prepend(TagUnits(source) \o <<58>>, encodeURIComponent(raw))
    ELSE UriError

\* what parseId gives back: null, {source, value}, or a thrown URIError
ParsedNull == [kind |-> "null", source |-> "", value |-> <<>>]
ParsedThrow == [kind |-> "throw", source |-> "", value |-> <<>>]
Parsed(source, value) == [kind |-> "ok", source |-> source, value |-> value]

\* parseId with its `if (!rest) return null` left out
parseId_NoRestCheck(id) ==
    LET parts == split(id, 58)
        prefix == parts[1]
        rest == IF Len(parts) >= 2 THEN parts[2] ELSE <<>>
        decoded == decodeURIComponent(rest)
    IN  IF id = <<>> THEN ParsedNull
        ELSE IF prefix = TagUnits("gutenberg") THEN Parsed("gutenberg", rest)
        ELSE IF prefix = TagUnits("wsrc-ru") THEN
            IF decoded.ok THEN Parsed("wsrc-ru", decoded.v) ELSE ParsedThrow
        ELSE IF prefix = TagUnits("wsrc-ua") THEN
            IF decoded.ok THEN Parsed("wsrc-ua", decoded.v) ELSE ParsedThrow
        ELSE ParsedNull

\* parseId(id) for a string id: the destructuring [prefix, rest] keeps the
\* first two segments of id.split(":"); rest is undefined when there is one
parseId(id) ==
    LET parts == split(id, 58)
        prefix == parts[1]
        restDefined == Len(parts) >= 2
        rest == IF restDefined THEN parts[2] ELSE <<>>
        decoded == decodeURIComponent(rest)
    IN  IF id = <<>> THEN ParsedNull
        ELSE IF ~restDefined \/ rest = <<>> THEN ParsedNull
        ELSE IF prefix = TagUnits("gutenberg") THEN Parsed("gutenberg", rest)
        ELSE IF prefix = TagUnits("wsrc-ru") THEN
            IF decoded.ok THEN Parsed("wsrc-ru", decoded.v) ELSE ParsedThrow
        ELSE IF prefix = TagUnits("wsrc-ua") THEN
            IF decoded.ok THEN Parsed("wsrc-ua", decoded.v) ELSE ParsedThrow
        ELSE ParsedNull

(***************************************************************************)
(* The codec on its own: makeId(tag, payload), then parseId of its result. *)
(***************************************************************************)
\* the units payloads are made of: a 8 : % space, Cyrillic A, a lone high
\* surrogate
PayloadUnits == {97, 56, 58, 37, 32, 1040, 55296}
Payloads == SeqsUpTo(PayloadUnits, MaxPayloadLen)

\* the sources makeId is called with: the three tags and an unknown one
MakeIdSources == Tags \cup {"archive"}

IdIdle ==
    /\ idPc = "off"
    /\ idTag = ""
    /\ idPayload = <<>>
    /\ idEncoded = UriError
    /\ idParsed = ParsedNull

IdInit ==
    /\ idPc = "ready"
    /\ idTag \in MakeIdSources
    /\ idPayload \in Payloads
    /\ idEncoded = UriError
    /\ idParsed = ParsedNull

\* makeId(tag, payload)
IdEncode ==
    /\ idPc = "ready"
    /\ idEncoded' = makeId(idTag, idPayload)
    /\ idPc' = "encoded"
    /\ UNCHANGED <<idTag, idPayload, idParsed>>
    /\ IdOnly

\* parseId of the identifier makeId returned
IdDecode ==
    /\ idPc = "encoded"
    /\ idEncoded.ok
    /\ idParsed' = parseId(idEncoded.v)
    /\ idPc' = "decoded"
    /\ UNCHANGED <<idTag, idPayload, idEncoded>>
    /\ IdOnly

IdNext == IdEncode \/ IdDecode

(***************************************************************************)
(* Wikisource classifier: isBadWikisourceTitle, looksLikeIndexOrList, and  *)
(* the link picker pickBestLink.                                           *)
(***************************************************************************)
\* `x.length < 2000`: below this a text is tested for list lines
ShortTextLimit == 2000
\* `listy >= 8`: this many list lines make a short text an index
ListyThreshold == 8
\* `x.length < 8000` of the contents keywords
ContentsLimit == 8000
\* `x.length < 12000` of the works keywords
WorksLimit == 12000

\* the service namespaces of `badPrefixes`, each with its colon
BadPrefixes == {
    <<1050, 1072, 1090, 1077, 1075, 1086, 1088, 1080, 1103, 58>>,
    <<67, 97, 116, 101, 103, 111, 114, 121, 58>>,                    \* Category:
    <<1057, 1083, 1091, 1078, 1077, 1073, 1085, 1072, 1103, 58>>,
    <<83, 112, 101, 99, 105, 97, 108, 58>>,                          \* Special:
    <<1060, 1072, 1081, 1083, 58>>,
    <<70, 105, 108, 101, 58>>,                                       \* File:
    <<1064, 1072, 1073, 1083, 1086, 1085, 58>>,
    <<84, 101, 109, 112, 108, 97, 116, 101, 58>>,                    \* Template:
    <<1054, 1073, 1089, 1091, 1078, 1076, 1077, 1085, 1080, 1077, 58>>,
    <<84, 97, 108, 107, 58>>,                                        \* Talk:
    <<1055, 1086, 1088, 1090, 1072, 1083, 58>>,
    <<80, 111, 114, 116, 97, 108, 58>>,                              \* Portal:
    <<1042, 1080, 1082, 1080, 1080, 1089, 1090, 1086, 1095, 1085, 1080, 1082, 58>>,
    <<87, 105, 107, 105, 115, 111, 117, 114, 99, 101, 58>>,          \* Wikisource:
    <<73, 110, 100, 101, 120, 58>>,                                  \* Index:
    <<80, 97, 103, 101, 58>>,                                        \* Page:
    <<1040, 1074, 1090, 1086, 1088, 58>>,
    <<65, 117, 116, 104, 111, 114, 58>> }                            \* Author:

\* isBadWikisourceTitle without the test of the prefixes
isBadWikisourceTitle_NoPrefixes(t) == t = <<>>

\* isBadWikisourceTitle(t)
isBadWikisourceTitle(t) ==
    \/ t = <<>>
    \/ LET s == trim(t) IN \E p \in BadPrefixes : startsWith(s, p)

\* the indexes at which the lines of x.split("\n") start (one past the end
\* for the empty line after a final line break)
LineStarts(x) == {1} \cup {i + 1 : i \in {j \in 1..Len(x) : x[j] = 10}}

\* the line of x.split("\n") that starts at index i
LineAt(x, i) ==
    LET breaks == {j \in i..Len(x) : x[j] = 10}
    IN  SubSeq(x, i, IF breaks = {} THEN Len(x) ELSE SetMin(breaks) - 1)

\* /^\s*[\*\-•]/.test(l)
IsListLine(l) ==
    LET j == SkipWs(l, 1) IN j <= Len(l) /\ l[j] \in {42, 45, 8226}

\* lines.filter((l) => /^\s*[\*\-•]/.test(l)).length
ListyCount(x) == Cardinality({i \in LineStarts(x) : IsListLine(LineAt(x, i))})

WordContents == <<67, 111, 110, 116, 101, 110, 116, 115>>
WordSoderzhanie == <<1057, 1086, 1076, 1077, 1088, 1078, 1072, 1085, 1080, 1077>>
WordZmist == <<1047, 1084, 1110, 1089, 1090>>
WordOglavlenie == <<1054, 1075, 1083, 1072, 1074, 1083, 1077, 1085, 1080, 1077>>
WordProizvedeniya == <<1055, 1088, 1086, 1080, 1079, 1074, 1077, 1076, 1077, 1085, 1080, 1103>>
WordTvory == <<1058, 1074, 1086, 1088, 1080>>
WordWorks == <<87, 111, 114, 107, 115>>

\* /==\s*(Содержание|Зміст|Contents)\s*==/i.test(x)
HasContentsHeading(x) ==
    \E i \in 1..Len(x) :
        /\ i + 1 <= Len(x) /\ x[i] = 61 /\ x[i + 1] = 61
        /\ LET j == SkipWs(x, i + 2)
           IN  \E w \in {WordSoderzhanie, WordZmist, WordContents} :
                   /\ MatchesAtCI(x, j, w)
                   /\ LET m == SkipWs(x, j + Len(w))
                      IN  m + 1 <= Len(x) /\ x[m] = 61 /\ x[m + 1] = 61

\* /Оглавление|Зміст|Содержание/i.test(x)
HasContentsWord(x) ==
    \E w \in {WordOglavlenie, WordZmist, WordSoderzhanie} : ContainsCI(x, w)

\* /Произведения|Твори|Works/i.test(x)
HasWorksWord(x) ==
    \E w \in {WordProizvedeniya, WordTvory, WordWorks} : ContainsCI(x, w)

\* looksLikeIndexOrList with 7 list lines already enough
looksLikeIndexOrList_OffByOne(title, text) ==
    LET t == trim(title)
        x == trim(text)
    IN  \/ isBadWikisourceTitle(t)
        \/ x = <<>>
        \/ (Len(x) < ShortTextLimit /\ ListyCount(x) >= ListyThreshold - 1)
        \/ HasContentsHeading(x)
        \/ (HasContentsWord(x) /\ Len(x) < ContentsLimit)
        \/ (HasWorksWord(x) /\ Len(x) < WorksLimit)

\* looksLikeIndexOrList(title, text)
looksLikeIndexOrList(title, text) ==
    LET t == trim(title)
        x == trim(text)
    IN  \/ isBadWikisourceTitle(t)
        \/ x = <<>>
        \/ (Len(x) < ShortTextLimit /\ ListyCount(x) >= ListyThreshold)
        \/ HasContentsHeading(x)
        \/ (HasContentsWord(x) /\ Len(x) < ContentsLimit)
        \/ (HasWorksWord(x) /\ Len(x) < WorksLimit)

\* what pickBestLink gives back: a title, or null
NoLink == [found |-> FALSE, title |-> <<>>]
Link(t) == [found |-> TRUE, title |-> t]

\* pickBestLink without the preference for titles without a colon
pickBestLink_FirstSurvivor(currentTitle, links) ==
    LET cur == trim(currentTitle)
        trimmed == [i \in 1..Len(links) |-> trim(links[i])]
        NotSelf(l) == l # <<>> /\ l # cur
        NotBad(l) == ~isBadWikisourceTitle(l)
        filtered == SelectSeq(SelectSeq(trimmed, NotSelf), NotBad)
    IN  IF filtered = <<>> THEN NoLink ELSE Link(filtered[1])

\* pickBestLink(currentTitle, links); SelectSeq is Array.prototype.filter
pickBestLink(currentTitle, links) ==
    LET cur == trim(currentTitle)
        trimmed == [i \in 1..Len(links) |-> trim(links[i])]
        NotSelf(l) == l # <<>> /\ l # cur
        NotBad(l) == ~isBadWikisourceTitle(l)
        NoColon(l) == ~includesUnit(l, 58)
        filtered == SelectSeq(SelectSeq(trimmed, NotSelf), NotBad)
        noColon == SelectSeq(filtered, NoColon)
    IN  IF filtered = <<>> THEN NoLink
        ELSE IF noColon # <<>> THEN Link(noColon[1])
        ELSE Link(filtered[1])

\* the closing test of downloadWikisourceSmart with the classifier left out
IsIndexPage_TextOnly(resolvedTitle, text) == text = <<>>

\* `!text || looksLikeIndexOrList(resolvedTitle, text)`: the closing test of
\* downloadWikisourceSmart, under which it throws instead of returning a file
IsIndexPage(resolvedTitle, text) ==
    text = <<>> \/ looksLikeIndexOrList(resolvedTitle, text)

(***************************************************************************)
(* The classifier and the link picker on their own.  A page text is drawn  *)
(* as a description [bullets, marker, indent, kw, len] and TextOf builds   *)
(* the text from it: `bullets` list lines, a keyword line, then filler up  *)
(* to `len` units once trimmed, the whole wrapped in white space.          *)
(***************************************************************************)
KwKinds == {"none", "heading", "contents", "works", "worksLower"}

\* the keyword line of a generated text
KwUnits(kw) ==
    CASE kw = "heading" -> <<61, 61, 32>> \o WordContents \o <<32, 61, 61, 10>>
      [] kw = "contents" -> WordOglavlenie \o <<10>>
      [] kw = "works" -> WordWorks \o <<10>>
      [] kw = "worksLower" -> <<119, 111, 114, 107, 115, 10>>
      [] OTHER -> <<>>

\* the trimmed lengths of the generated texts: around each limit of the code
TextLengths ==
    {0, 100, 500, ShortTextLimit - 1, ShortTextLimit,
     ContentsLimit - 1, ContentsLimit, WorksLimit - 1, WorksLimit}

\* one list line: indent, marker, " a", line break
BulletLine(marker, indent) == Fill(32, indent) \o <<marker, 32, 97, 10>>

TextHead(d) == Repeat(BulletLine(d.marker, d.indent), d.bullets) \o KwUnits(d.kw)

\* the units of filler that bring the trimmed text to d.len units
FillerCount(d) ==
    d.len - (Len(TextHead(d)) - (IF d.bullets > 0 THEN d.indent ELSE 0))

TextOf(d) ==
    IF d.len = 0 THEN <<32, 10>>
    ELSE <<10>> \o TextHead(d) \o Fill(120, FillerCount(d)) \o <<10, 32>>

TextDescs ==
    {d \in [bullets : 0..MaxBullets, marker : {42, 45, 8226}, indent : {0, 1},
            kw : KwKinds, len : TextLengths] :
        /\ (d.bullets = 0 \/ d.kw # "none" => d.marker = 42 /\ d.indent = 0)
        /\ (d.indent = 1 => d.marker = 42)
        /\ (d.len = 0 => d.bullets = 0 /\ d.kw = "none")
        /\ (d.len > 0 => FillerCount(d) >= 1)
        /\ (d.len > ShortTextLimit =>
                d.bullets \in {0, MaxBullets} /\ d.marker = 42 /\ d.indent = 0)}

\* a few texts for the titles of every namespace
FewTextDescs ==
    {d \in TextDescs : d.kw = "none" /\ d.marker = 42 /\ d.indent = 0
                       /\ d.bullets \in {0, MaxBullets} /\ d.len \in {0, 500, WorksLimit}}

\* "N", "M", "A:B": titles of content pages
TitleN == <<78>>
TitleM == <<77>>
TitleAB == <<65, 58, 66>>
\* "Category:Novels"
TitleCategoryNovels == <<67, 97, 116, 101, 103, 111, 114, 121, 58, 78, 111, 118, 101, 108, 115>>

\* a title in each service namespace, "Category:Novels" after white space,
\* and titles in none: lower-case "category:N", "Category" without colon
ClsTitles ==
    {p \o TitleN : p \in BadPrefixes}
    \cup {TitleCategoryNovels, <<32>> \o TitleCategoryNovels,
          <<99, 97, 116, 101, 103, 111, 114, 121, 58, 78>>,
          <<67, 97, 116, 101, 103, 111, 114, 121>>,
          TitleN, TitleAB, <<>>, <<32>>}

FewClsTitles == {TitleN, TitleCategoryNovels, <<>>}

\* the link titles pickBestLink is given
ClsLinkTitles ==
    {TitleN, TitleM, <<32>> \o TitleN, TitleAB, TitleCategoryNovels, <<>>, <<32>>}

NoText == [bullets |-> 0, marker |-> 42, indent |-> 0, kw |-> "none", len |-> 0]

ClsIdle ==
    /\ clsPc = "off"
    /\ clsTitle = <<>>
    /\ clsText = NoText
    /\ clsLinks = <<>>
    /\ clsResult = FALSE
    /\ clsDelivered = FALSE
    /\ clsBest = NoLink

ClsInit ==
    /\ clsResult = FALSE
    /\ clsDelivered = FALSE
    /\ clsBest = NoLink
    /\ \/ /\ clsPc = "page"
          /\ clsLinks = <<>>
          /\ \/ clsTitle \in ClsTitles /\ clsText \in FewTextDescs
             \/ clsTitle \in FewClsTitles /\ clsText \in TextDescs
       \/ /\ clsPc = "links"
          /\ clsText = NoText
          /\ clsTitle \in {TitleN, TitleAB, TitleCategoryNovels}
          /\ clsLinks \in SeqsUpTo(ClsLinkTitles, MaxLinks)

\* looksLikeIndexOrList(title, text), and the closing test of
\* downloadWikisourceSmart on the page as getWikisourcePlain hands it over
\* (its text trimmed)
ClsClassify ==
    /\ clsPc = "page"
    /\ clsResult' = looksLikeIndexOrList(clsTitle, TextOf(clsText))
    /\ clsDelivered' = ~IsIndexPage(clsTitle, trim(TextOf(clsText)))
    /\ clsPc' = "classified"
    /\ UNCHANGED <<clsTitle, clsText, clsLinks, clsBest>>
    /\ ClsOnly

\* pickBestLink(title, links)
ClsPick ==
    /\ clsPc = "links"
    /\ clsBest' = pickBestLink(clsTitle, clsLinks)
    /\ clsPc' = "picked"
    /\ UNCHANGED <<clsTitle, clsText, clsLinks, clsResult, clsDelivered>>
    /\ ClsOnly

ClsNext == ClsClassify \/ ClsPick

(***************************************************************************)
(* Content-Disposition: asciiFallbackName, rfc5987Encode and               *)
(* setDownloadHeaders.                                                     *)
(***************************************************************************)
\* "book", "attachment; filename=\"", "\"; filename*=UTF-8''"
WordBook == <<98, 111, 111, 107>>
CdHead == <<97, 116, 116, 97, 99, 104, 109, 101, 110, 116, 59, 32,
            102, 105, 108, 101, 110, 97, 109, 101, 61, 34>>
CdMiddle == <<34, 59, 32, 102, 105, 108, 101, 110, 97, 109, 101, 42, 61,
              85, 84, 70, 45, 56, 39, 39>>

\* the compatibility decomposition of one unit, for the letters titles are
\* drawn from: e-acute, short i, io, yi, the fi ligature, the no-break space
NfkdUnit(c) ==
    CASE c = 233 -> <<101, 769>>
      [] c = 1081 -> <<1080, 774>>
      [] c = 1025 -> <<1045, 776>>
      [] c = 1105 -> <<1077, 776>>
      [] c = 1031 -> <<1030, 776>>
      [] c = 1111 -> <<1110, 776>>
      [] c = 64257 -> <<102, 105>>
      [] c = 160 -> <<32>>
      [] OTHER -> <<c>>

\* String.prototype.normalize("NFKD")
RECURSIVE normalizeNFKD(_)
normalizeNFKD(s) ==
    IF s = <<>> THEN <<>> ELSE NfkdUnit(Head(s)) \o normalizeNFKD(Tail(s))

\* [a-zA-Z0-9._-]
IsSafeNameUnit(c) ==
    \/ (65 <= c /\ c <= 90) \/ (97 <= c /\ c <= 122) \/ (48 <= c /\ c <= 57)
    \/ c \in {46, 95, 45}

\* .replace(/[^\x00-\x7F]/g, "")
StripNonAscii(s) == LET IsAscii(c) == c <= 127 IN SelectSeq(s, IsAscii)

\* .replace(/[^a-zA-Z0-9._-]+/g, "_"): each run of other units becomes one "_"
RECURSIVE CollapseUnsafe(_, _)
CollapseUnsafe(s, inRun) ==
    IF s = <<>> THEN <<>>
    ELSE IF IsSafeNameUnit(Head(s)) THEN <<Head(s)>> \o CollapseUnsafe(Tail(s), FALSE)
    ELSE (IF inRun THEN <<>> ELSE <<95>>) \o CollapseUnsafe(Tail(s), TRUE)

\* .replace(/^_+|_+$/g, "")
StripUnderscores(s) ==
    LET lead == CHOOSE k \in 0..Len(s) :
                    (k = Len(s) \/ s[k + 1] # 95) /\ \A j \in 1..k : s[j] = 95
        trail == CHOOSE k \in 0..Len(s) :
                    (k = Len(s) \/ s[Len(s) - k] # 95)
                    /\ \A j \in 1..k : s[Len(s) + 1 - j] = 95
    IN  IF lead = Len(s) THEN <<>> ELSE SubSeq(s, lead + 1, Len(s) - trail)

\* `ext.startsWith(".") ? ext : "." + ext`
SafeExt(ext) == IF startsWith(ext, <<46>>) THEN ext ELSE <<46>> \o ext

\* asciiFallbackName that only drops the non-ASCII units
asciiFallbackName_KeepUnsafe(name, ext) ==
    StripNonAscii(IF name = <<>> THEN WordBook ELSE name) \o SafeExt(ext)

\* asciiFallbackName(name, ext)
asciiFallbackName(name, ext) ==
    LET base == StripUnderscores(CollapseUnsafe(StripNonAscii(
                    normalizeNFKD(IF name = <<>> THEN WordBook ELSE name)), FALSE))
        safeBase == IF Len(base) > 0 THEN base ELSE WordBook
    IN  safeBase \o SafeExt(ext)

\* .replace of one unit by its escape, for ' ( ) *
RECURSIVE EscapeMarks(_)
EscapeMarks(s) ==
    IF s = <<>> THEN <<>>
    ELSE (IF Head(s) \in {39, 40, 41, 42} THEN PercentByte(Head(s)) ELSE <<Head(s)>>)
         \o EscapeMarks(Tail(s))

\* rfc5987Encode that drops the non-ASCII units before encoding
rfc5987Encode_AsciiOnly(str) ==
    LET e == encodeURIComponent(StripNonAscii(str))
    IN  IF e.ok THEN Ok(EscapeMarks(e.v)) ELSE e

\* rfc5987Encode(str): [ok, v]
rfc5987Encode(str) ==
    LET e == encodeURIComponent(str)
    IN  IF e.ok THEN Ok(EscapeMarks(e.v)) ELSE e

\* the Content-Disposition value setDownloadHeaders sets: [ok, v], ok = FALSE
\* when rfc5987Encode throws before any header is set
setDownloadHeaders(filenameUnicode, ext) ==
    LET safeExt == SafeExt(ext)
        fallback == asciiFallbackName(filenameUnicode, safeExt)
        encoded == rfc5987Encode(
            (IF filenameUnicode = <<>> THEN WordBook ELSE filenameUnicode) \o safeExt)
    IN  IF encoded.ok THEN Ok(CdHead \o fallback \o CdMiddle \o encoded.v)
        ELSE UriError

(***************************************************************************)
(* The header builder on its own.                                          *)
(***************************************************************************)
\* the units titles are made of: a, Cyrillic ya, e-acute, the fi ligature,
\* double quote, apostrophe, line feed, space, underscore, DEL, percent,
\* left parenthesis, and the two halves of a surrogate pair (each alone is a
\* lone surrogate)
HdrUnits == {97, 1103, 233, 64257, 34, 39, 10, 32, 95, 127, 37, 40, 55357, 56832}
HdrTitles == SeqsUpTo(HdrUnits, MaxTitleLen)

\* the extensions of the download paths: "txt", "epub", "bin"
ExtTxt == <<116, 120, 116>>
ExtEpub == <<101, 112, 117, 98>>
ExtBin == <<98, 105, 110>>
DownloadExts == {ExtTxt, ExtEpub, ExtBin}

HdrIdle ==
    /\ hdrPc = "off"
    /\ hdrTitle = <<>>
    /\ hdrExt = ExtTxt
    /\ hdrValue = UriError

HdrInit ==
    /\ hdrPc = "ready"
    /\ hdrTitle \in HdrTitles
    /\ hdrExt \in DownloadExts
    /\ hdrValue = UriError

\* setDownloadHeaders(res, title, mime, ext) sets the header
HdrBuild ==
    /\ hdrPc = "ready"
    /\ setDownloadHeaders(hdrTitle, hdrExt).ok
    /\ hdrValue' = setDownloadHeaders(hdrTitle, hdrExt)
    /\ hdrPc' = "set"
    /\ UNCHANGED <<hdrTitle, hdrExt>>
    /\ HdrOnly

\* setDownloadHeaders throws: no header is set
HdrThrow ==
    /\ hdrPc = "ready"
    /\ ~setDownloadHeaders(hdrTitle, hdrExt).ok
    /\ hdrPc' = "thrown"
    /\ UNCHANGED <<hdrTitle, hdrExt, hdrValue>>
    /\ HdrOnly

HdrNext == HdrBuild \/ HdrThrow

(***************************************************************************)
(* GET /search: the fan-out to the three adapters, the join with           *)
(* Promise.allSettled, the merge and the sort.                             *)
(***************************************************************************)
\* the adapter calls in the order of the array handed to Promise.allSettled:
\* searchGutenberg, searchWikisource(WS_RU), searchWikisource(WS_UA)
Adapters == <<"gutenberg", "wsrc-ru", "wsrc-ua">>
AdapterSet == {Adapters[i] : i \in 1..Len(Adapters)}

\* the items an adapter returns: `n` items of its own source, numbered in
\* the order it returns them
ItemsOf(a, n) == [k \in 1..n |-> [source |-> a, k |-> k]]

\* /[А-Яа-яЁёІіЇїЄєҐґ]/.test(q)
hasCyr(q) ==
    \E i \in 1..Len(q) :
        \/ (1040 <= q[i] /\ q[i] <= 1071)
        \/ (1072 <= q[i] /\ q[i] <= 1103)
        \/ q[i] \in {1025, 1105, 1030, 1110, 1031, 1111, 1028, 1108, 1168, 1169}

\* w(x) of the sort comparator
Weight(cyr, x) ==
    IF ~cyr THEN (IF x.source = "gutenberg" THEN 0 ELSE 1)
    ELSE IF x.source = "wsrc-ru" THEN 0
    ELSE IF x.source = "wsrc-ua" THEN 0
    ELSE 2

\* the comparator `w(a) - w(b)`
Compare(cyr, a, b) == Weight(cyr, a) - Weight(cyr, b)

\* x put into the sorted list after every element that does not compare
\* greater than it
RECURSIVE InsertSorted(_, _, _)
InsertSorted(cyr, x, sorted) ==
    IF sorted = <<>> THEN <<x>>
    ELSE IF Compare(cyr, Head(sorted), x) <= 0
        THEN <<Head(sorted)>> \o InsertSorted(cyr, x, Tail(sorted))
    ELSE <<x>> \o sorted

\* items.sort(comparator): Array.prototype.sort is stable
RECURSIVE SortItems(_, _)
SortItems(cyr, items) ==
    IF items = <<>> THEN <<>>
    ELSE InsertSorted(cyr, items[Len(items)], SortItems(cyr, SubSeq(items, 1, Len(items) - 1)))

\* a join that settles on the first rejection, as Promise.all does
JoinReady_FirstRejection(calls) ==
    \/ \E a \in AdapterSet : calls[a].state = "rejected"
    \/ \A a \in AdapterSet : calls[a].state = "fulfilled"

\* Promise.allSettled: the await resumes once no call is pending
JoinReady(calls) == \A a \in AdapterSet : calls[a].state \in {"fulfilled", "rejected"}

\* the items pushed as the calls settle, from the i-th settled call on
RECURSIVE MergedItems_AsSettled(_, _)
MergedItems_AsSettled(calls, i) ==
    IF i > Len(sOrder) THEN <<>>
    ELSE (IF calls[sOrder[i]].state = "fulfilled" THEN calls[sOrder[i]].items ELSE <<>>)
         \o MergedItems_AsSettled(calls, i + 1)

\* the items pushed by the loop over [g, ru, ua]
RECURSIVE MergedItems(_, _)
MergedItems(calls, i) ==
    IF i > Len(Adapters) THEN <<>>
    ELSE (IF calls[Adapters[i]].state = "fulfilled" THEN calls[Adapters[i]].items ELSE <<>>)
         \o MergedItems(calls, i + 1)

\* hasMore overwritten by each fulfilled call instead of or-ed
RECURSIVE MergedHasMore_LastWins(_, _, _)
MergedHasMore_LastWins(calls, i, acc) ==
    IF i > Len(Adapters) THEN acc
    ELSE MergedHasMore_LastWins(calls, i + 1,
            IF calls[Adapters[i]].state = "fulfilled" THEN calls[Adapters[i]].hasMore ELSE acc)

\* `hasMore = hasMore || r.value.hasMore` over the fulfilled calls, acc the
\* value so far
RECURSIVE MergedHasMore(_, _, _)
MergedHasMore(calls, i, acc) ==
    IF i > Len(Adapters) THEN acc
    ELSE MergedHasMore(calls, i + 1,
            IF calls[Adapters[i]].state = "fulfilled"
            THEN acc \/ calls[Adapters[i]].hasMore ELSE acc)

\* the units queries are made of: a, Cyrillic ya, Cyrillic short u (a letter
\* of the Cyrillic block outside the ranges of hasCyr), space
QueryUnits == {97, 1103, 1118, 32}
Queries == SeqsUpTo(QueryUnits, MaxQueryLen)

IdleCall == [state |-> "idle", items |-> <<>>, hasMore |-> FALSE]
NoSearchResponse == [status |-> 0, hasMore |-> FALSE, results |-> <<>>]

SIdle ==
    /\ sPc = "off"
    /\ sQuery = <<>>
    /\ sCalls = [a \in AdapterSet |-> IdleCall]
    /\ sOrder = <<>>
    /\ sResponse = NoSearchResponse

SInit ==
    /\ sPc = "start"
    /\ sQuery \in Queries
    /\ sCalls = [a \in AdapterSet |-> IdleCall]
    /\ sOrder = <<>>
    /\ sResponse = NoSearchResponse

\* `if (!q) return res.status(400)...`
SearchEmptyQuery ==
    /\ sPc = "start"
    /\ trim(sQuery) = <<>>
    /\ sResponse' = [NoSearchResponse EXCEPT !.status = 400]
    /\ sPc' = "done"
    /\ UNCHANGED <<sQuery, sCalls, sOrder>>
    /\ SOnly

\* the three calls are made while the array is built, then the handler
\* awaits Promise.allSettled
SearchFanOut ==
    /\ sPc = "start"
    /\ trim(sQuery) # <<>>
    /\ sCalls' = [a \in AdapterSet |-> [IdleCall EXCEPT !.state = "pending"]]
    /\ sPc' = "waiting"
    /\ UNCHANGED <<sQuery, sOrder, sResponse>>
    /\ SOnly

\* an adapter's search fulfils with its items and its hasMore
SearchFulfil(a) ==
    /\ sCalls[a].state = "pending"
    /\ \E n \in 0..MaxItems, more \in BOOLEAN :
           sCalls' = [sCalls EXCEPT ![a] =
                        [state |-> "fulfilled", items |-> ItemsOf(a, n), hasMore |-> more]]
    /\ sOrder' = Append(sOrder, a)
    /\ UNCHANGED <<sPc, sQuery, sResponse>>
    /\ SOnly

\* an adapter's search rejects (fetchJson throws)
SearchReject(a) ==
    /\ sCalls[a].state = "pending"
    /\ sCalls' = [sCalls EXCEPT ![a] = [IdleCall EXCEPT !.state = "rejected"]]
    /\ sOrder' = Append(sOrder, a)
    /\ UNCHANGED <<sPc, sQuery, sResponse>>
    /\ SOnly

\* the await resumes: merge, sort, res.json
SearchRespond ==
    /\ sPc = "waiting"
    /\ JoinReady(sCalls)
    /\ sResponse' = [status |-> 200,
                     hasMore |-> MergedHasMore(sCalls, 1, FALSE),
                     results |-> SortItems(hasCyr(trim(sQuery)), MergedItems(sCalls, 1))]
    /\ sPc' = "done"
    /\ UNCHANGED <<sQuery, sCalls, sOrder>>
    /\ SOnly

SNext ==
    \/ SearchEmptyQuery
    \/ SearchFanOut
    \/ \E a \in AdapterSet : SearchFulfil(a)
    \/ \E a \in AdapterSet : SearchReject(a)
    \/ SearchRespond

(***************************************************************************)
(* Wikisource download: getWikisourcePlain, getWikisourceCandidateLinks    *)
(* and the loop of downloadWikisourceSmart.                                *)
(***************************************************************************)
\* `hop < 2`: the most link hops of one download
MaxHops == 2

\* getWikisourcePlain that names the page by the title asked for
getWikisourcePlain_AskedTitle(page, title) ==
    [title |-> title, text |-> trim(page.extract)]

\* getWikisourcePlain on the page the upstream answered with, for the title
\* asked: {title: page.title || title, text: (page.extract || "").trim()}
getWikisourcePlain(page, title) ==
    [title |-> IF page.title # <<>> THEN page.title ELSE title,
     text |-> trim(page.extract)]

\* getWikisourceCandidateLinks: links.map((l) => l.title).filter(Boolean)
getWikisourceCandidateLinks(rawTitles) ==
    LET NonEmpty(t) == t # <<>> IN SelectSeq(rawTitles, NonEmpty)

\* the loop without its hop limit
LoopContinues_NoLimit(hop, resolvedTitle, text) ==
    looksLikeIndexOrList(resolvedTitle, text)

\* the loop goes on to fetch links: `hop < 2` holds and the page in hand
\* looks like an index
LoopContinues(hop, resolvedTitle, text) ==
    hop < MaxHops /\ looksLikeIndexOrList(resolvedTitle, text)

\* "abc", " abc" and a line break, "Works", eight list lines
TextWork == <<97, 98, 99>>
TextWorkPadded == <<32, 97, 98, 99, 10>>
TextWorksList == WordWorks
TextBullets == Repeat(<<42, 97, 10>>, ListyThreshold)

\* what the upstream may answer a page request with: any title (none, a
\* content title, a category, a lone surrogate) with any extract
WikiPageTitles == {<<>>, TitleN, TitleM, TitleCategoryNovels, <<55357>>}
WikiExtracts == {<<>>, TextWork, TextWorkPadded, TextWorksList, TextBullets}
WikiPages == [title : WikiPageTitles, extract : WikiExtracts]

\* what the upstream may answer a links request with
WikiLinkTitles == {<<>>, TitleN, TitleM, TitleAB, TitleCategoryNovels}
WikiLinkLists == SeqsUpTo(WikiLinkTitles, MaxLinks)

(***************************************************************************)
(* Gutenberg download: the candidate list of downloadGutenberg.            *)
(***************************************************************************)
\* `candidates`, in order
Candidates ==
    <<"text/plain; charset=utf-8", "text/plain", "application/epub+zip",
      "text/html; charset=utf-8">>

\* the keys a book's formats map may hold
FormatKeys ==
    {"text/plain; charset=utf-8", "text/plain", "text/plain; charset=us-ascii",
     "application/epub+zip", "text/html; charset=utf-8"}

\* the first candidate the formats map holds, "" when it holds none
PickCandidate(formats) ==
    LET hit == {i \in 1..Len(Candidates) : Candidates[i] \in formats}
    IN  IF hit = {} THEN "" ELSE Candidates[SetMin(hit)]

\* the extension downloadGutenberg gives a file of the picked MIME type
GutenbergExt(mime) == IF mime = "application/epub+zip" THEN ExtEpub ELSE ExtTxt

\* "gutenberg_" before the id, the title of a book without one
GutenbergTitle(id) == TagUnits("gutenberg") \o <<95>> \o id

\* the bytes of a book file, whatever they are
BookBytes == <<66>>

(***************************************************************************)
(* GET /download-best.                                                     *)
(***************************************************************************)
\* the ids requests carry: a prefix alone, or a prefix, a colon and a rest.
\* The empty id stands for a request without id as well: `!id` holds of both
IdPrefixes ==
    {TagUnits(t) : t \in Tags} \cup {TagUnits("archive"), <<>>}
\* "", "8", "N", "%", "N:M", "%D1%8F" (Cyrillic ya), "%20" (a space)
IdRests ==
    {<<>>, <<56>>, <<78>>, <<37>>, <<78, 58, 77>>,
     <<37, 68, 49, 37, 56, 70>>, <<37, 50, 48>>}
IdInputs == IdPrefixes \cup {p \o <<58>> \o r : p \in IdPrefixes, r \in IdRests}

NoResponse ==
    [status |-> 0, kind |-> "none", error |-> "", title |-> <<>>,
     bytes |-> <<>>, disposition |-> <<>>]

\* res.status(code).json({error})
ErrorResponse(code, error) ==
    [NoResponse EXCEPT !.status = code, !.kind = "json", !.error = error]

\* the message of the error downloadWikisourceSmart throws
IndexPageError == "This looks like an index/list page. Please choose a specific work page."

\* an end of the handler that sends the buffer although the headers threw
FileResponse_SendsAnyway(title, ext, buffer) ==
    LET name == IF title = <<>> THEN WordBook ELSE title
        cd == setDownloadHeaders(name, ext)
    IN  [status |-> IF cd.ok THEN 200 ELSE 500,
         kind |-> IF cd.ok THEN "file" ELSE "json",
         error |-> IF cd.ok THEN "" ELSE "URI malformed", title |-> name,
         bytes |-> buffer, disposition |-> IF cd.ok THEN cd.v ELSE <<>>]

\* the end of the handler for the file {title, ext, buffer}:
\* setDownloadHeaders, then res.send(buffer); a throw lands in the catch
FileResponse(title, ext, buffer) ==
    LET name == IF title = <<>> THEN WordBook ELSE title
        cd == setDownloadHeaders(name, ext)
    IN  IF cd.ok
        THEN [status |-> 200, kind |-> "file", error |-> "", title |-> name,
              bytes |-> buffer, disposition |-> cd.v]
        ELSE ErrorResponse(500, "URI malformed")

\* the response of a Wikisource download that left the loop
WikiResponse(resolvedTitle, text) ==
    IF IsIndexPage(resolvedTitle, text) THEN ErrorResponse(500, IndexPageError)
    ELSE FileResponse(resolvedTitle, ExtTxt, text)

DlIdle ==
    /\ dlPc = "off"
    /\ dlId = <<>>
    /\ dlParsed = ParsedNull
    /\ dlHop = 0
    /\ dlHopTitle = <<>>
    /\ dlResolvedTitle = <<>>
    /\ dlText = <<>>
    /\ dlExit = ""
    /\ dlUpstream = 0
    /\ dlLinkFetches = 0
    /\ dlRefetches = 0
    /\ dlMime = ""
    /\ dlFormats = {}
    /\ dlPages = <<>>
    /\ dlResponse = NoResponse

DlInit ==
    /\ dlPc = "start"
    /\ dlId \in IdInputs
    /\ dlParsed = ParsedNull
    /\ dlHop = 0
    /\ dlHopTitle = <<>>
    /\ dlResolvedTitle = <<>>
    /\ dlText = <<>>
    /\ dlExit = ""
    /\ dlUpstream = 0
    /\ dlLinkFetches = 0
    /\ dlRefetches = 0
    /\ dlMime = ""
    /\ dlFormats = {}
    /\ dlPages = <<>>
    /\ dlResponse = NoResponse

\* the handler answers and ends
Respond(response) ==
    /\ dlResponse' = response
    /\ dlPc' = "done"

\* `if (!id) return res.status(400).json({ error: "Missing id" })`
DlMissingId ==
    /\ dlPc = "start"
    /\ dlId = <<>>
    /\ Respond(ErrorResponse(400, "Missing id"))
    /\ UNCHANGED <<dlId, dlParsed, dlHop, dlHopTitle, dlResolvedTitle, dlText,
                   dlExit, dlUpstream, dlLinkFetches, dlRefetches, dlMime>>
    /\ UNCHANGED <<dlFormats, dlPages>>
    /\ DlOnly

\* `if (!parsed) return res.status(400).json({ error: "Bad id format" })`
DlBadId ==
    /\ dlPc = "start"
    /\ dlId # <<>>
    /\ parseId(dlId).kind = "null"
    /\ dlParsed' = parseId(dlId)
    /\ Respond(ErrorResponse(400, "Bad id format"))
    /\ UNCHANGED <<dlId, dlHop, dlHopTitle, dlResolvedTitle, dlText,
                   dlExit, dlUpstream, dlLinkFetches, dlRefetches, dlMime>>
    /\ UNCHANGED <<dlFormats, dlPages>>
    /\ DlOnly

\* decodeURIComponent throws inside parseId: the catch answers 500
DlParseThrows ==
    /\ dlPc = "start"
    /\ dlId # <<>>
    /\ parseId(dlId).kind = "throw"
    /\ dlParsed' = parseId(dlId)
    /\ Respond(ErrorResponse(500, "URI malformed"))
    /\ UNCHANGED <<dlId, dlHop, dlHopTitle, dlResolvedTitle, dlText,
                   dlExit, dlUpstream, dlLinkFetches, dlRefetches, dlMime>>
    /\ UNCHANGED <<dlFormats, dlPages>>
    /\ DlOnly

\* downloadWikisourceSmart starts: the page of the title is requested
DlStartWiki ==
    /\ dlPc = "start"
    /\ dlId # <<>>
    /\ parseId(dlId).kind = "ok"
    /\ parseId(dlId).source \in {"wsrc-ru", "wsrc-ua"}
    /\ dlParsed' = parseId(dlId)
    /\ dlHopTitle' = parseId(dlId).value
    /\ dlUpstream' = dlUpstream + 1
    /\ dlPc' = "ws_first"
    /\ UNCHANGED <<dlId, dlHop, dlResolvedTitle, dlText, dlExit,
                   dlLinkFetches, dlRefetches, dlMime, dlResponse>>
    /\ UNCHANGED <<dlFormats, dlPages>>
    /\ DlOnly

\* the loop is entered (or entered again) with the page (title, text) in
\* hand after `hop` hops: either the links of the page are requested, or the
\* loop is left and the handler answers
LoopOrAnswer(hop, title, text) ==
    IF LoopContinues(hop, title, text)
    THEN /\ dlPc' = "ws_links"
         /\ dlLinkFetches' = dlLinkFetches + 1
         /\ dlUpstream' = dlUpstream + 1
         /\ UNCHANGED <<dlExit, dlResponse>>
    ELSE /\ dlExit' = IF hop < MaxHops THEN "work" ELSE "hops"
         /\ Respond(WikiResponse(title, text))
         /\ UNCHANGED <<dlLinkFetches, dlUpstream>>

\* the first page arrives
DlWsFirstPage ==
    /\ dlPc = "ws_first"
    /\ \E page \in WikiPages :
           LET got == getWikisourcePlain(page, dlHopTitle)
           IN  /\ dlResolvedTitle' = got.title
               /\ dlText' = got.text
               /\ dlPages' = Append(dlPages, [asked |-> dlHopTitle, page |-> page])
               /\ LoopOrAnswer(0, got.title, got.text)
    /\ UNCHANGED <<dlId, dlParsed, dlHop, dlHopTitle, dlRefetches, dlMime>>
    /\ UNCHANGED dlFormats
    /\ DlOnly

\* the links of the page arrive: the best one is requested, or there is
\* none (`if (!best) break`) and the handler answers
DlWsLinks ==
    /\ dlPc = "ws_links"
    /\ \E raw \in WikiLinkLists :
           LET best == pickBestLink(dlResolvedTitle, getWikisourceCandidateLinks(raw))
           IN  IF best.found
               THEN /\ dlHopTitle' = best.title
                    /\ dlPc' = "ws_next"
                    /\ dlRefetches' = dlRefetches + 1
                    /\ dlUpstream' = dlUpstream + 1
                    /\ UNCHANGED <<dlExit, dlResponse>>
               ELSE /\ dlExit' = "nolink"
                    /\ Respond(WikiResponse(dlResolvedTitle, dlText))
                    /\ UNCHANGED <<dlHopTitle, dlRefetches, dlUpstream>>
    /\ UNCHANGED <<dlId, dlParsed, dlHop, dlResolvedTitle, dlText,
                   dlLinkFetches, dlMime>>
    /\ UNCHANGED <<dlFormats, dlPages>>
    /\ DlOnly

\* the linked page arrives: the same title again ends the loop
\* (`if (next.title === resolvedTitle) break`), another one is taken over
\* and the hop is counted
DlWsNextPage ==
    /\ dlPc = "ws_next"
    /\ \E page \in WikiPages :
           LET next == getWikisourcePlain(page, dlHopTitle)
           IN  /\ dlPages' = Append(dlPages, [asked |-> dlHopTitle, page |-> page])
               /\ IF next.title = dlResolvedTitle
                  THEN /\ dlExit' = "stuck"
                       /\ Respond(WikiResponse(dlResolvedTitle, dlText))
                       /\ UNCHANGED <<dlResolvedTitle, dlText, dlHop,
                                      dlLinkFetches, dlUpstream>>
                  ELSE /\ dlResolvedTitle' = next.title
                       /\ dlText' = next.text
                       /\ dlHop' = dlHop + 1
                       /\ LoopOrAnswer(dlHop + 1, next.title, next.text)
    /\ UNCHANGED <<dlId, dlParsed, dlHopTitle, dlRefetches, dlMime>>
    /\ UNCHANGED dlFormats
    /\ DlOnly

\* the upstream answers a page request with a missing page:
\* getWikisourcePlain throws "Page not found"
DlWsPageMissing ==
    /\ dlPc \in {"ws_first", "ws_next"}
    /\ dlExit' = "throw"
    /\ Respond(ErrorResponse(500, "Page not found"))
    /\ UNCHANGED <<dlId, dlParsed, dlHop, dlHopTitle, dlResolvedTitle, dlText,
                   dlUpstream, dlLinkFetches, dlRefetches, dlMime>>
    /\ UNCHANGED <<dlFormats, dlPages>>
    /\ DlOnly

\* a request to the upstream fails: fetchJson throws
DlFetchFails ==
    /\ dlPc \in {"ws_first", "ws_links", "ws_next"}
    /\ dlExit' = "throw"
    /\ Respond(ErrorResponse(500, "Fetch failed"))
    /\ UNCHANGED <<dlId, dlParsed, dlHop, dlHopTitle, dlResolvedTitle, dlText,
                   dlUpstream, dlLinkFetches, dlRefetches, dlMime>>
    /\ UNCHANGED <<dlFormats, dlPages>>
    /\ DlOnly

\* downloadGutenberg starts: the book record is requested
DlStartGutenberg ==
    /\ dlPc = "start"
    /\ dlId # <<>>
    /\ parseId(dlId).kind = "ok"
    /\ parseId(dlId).source = "gutenberg"
    /\ dlParsed' = parseId(dlId)
    /\ dlUpstream' = dlUpstream + 1
    /\ dlPc' = "gut_book"
    /\ UNCHANGED <<dlId, dlHop, dlHopTitle, dlResolvedTitle, dlText, dlExit,
                   dlLinkFetches, dlRefetches, dlMime, dlResponse>>
    /\ UNCHANGED <<dlFormats, dlPages>>
    /\ DlOnly

\* `if (!r.ok) throw new Error("Book not found")`
DlGutNotFound ==
    /\ dlPc = "gut_book"
    /\ Respond(ErrorResponse(500, "Book not found"))
    /\ UNCHANGED <<dlId, dlParsed, dlHop, dlHopTitle, dlResolvedTitle, dlText,
                   dlExit, dlUpstream, dlLinkFetches, dlRefetches, dlMime>>
    /\ UNCHANGED <<dlFormats, dlPages>>
    /\ DlOnly

\* the book record arrives: the first candidate of its formats is requested,
\* or there is none
DlGutBook ==
    /\ dlPc = "gut_book"
    /\ \E formats \in SUBSET FormatKeys, title \in {<<>>, TitleN} :
           IF PickCandidate(formats) = ""
           THEN /\ Respond(ErrorResponse(500, "No readable format found"))
                /\ UNCHANGED <<dlMime, dlFormats, dlResolvedTitle, dlUpstream>>
           ELSE /\ dlMime' = PickCandidate(formats)
                /\ dlFormats' = formats
                /\ dlResolvedTitle' =
                       IF title # <<>> THEN title ELSE GutenbergTitle(dlParsed.value)
                /\ dlUpstream' = dlUpstream + 1
                /\ dlPc' = "gut_file"
                /\ UNCHANGED dlResponse
    /\ UNCHANGED <<dlId, dlParsed, dlHop, dlHopTitle, dlText, dlExit,
                   dlLinkFetches, dlRefetches, dlPages>>
    /\ DlOnly

\* `if (!fileResp.ok) throw new Error("Failed to fetch book file")`
DlGutFileFails ==
    /\ dlPc = "gut_file"
    /\ Respond(ErrorResponse(500, "Failed to fetch book file"))
    /\ UNCHANGED <<dlId, dlParsed, dlHop, dlHopTitle, dlResolvedTitle, dlText,
                   dlExit, dlUpstream, dlLinkFetches, dlRefetches, dlMime>>
    /\ UNCHANGED <<dlFormats, dlPages>>
    /\ DlOnly

\* the file arrives and is sent
DlGutFile ==
    /\ dlPc = "gut_file"
    /\ Respond(FileResponse(dlResolvedTitle, GutenbergExt(dlMime), BookBytes))
    /\ UNCHANGED <<dlId, dlParsed, dlHop, dlHopTitle, dlResolvedTitle, dlText,
                   dlExit, dlUpstream, dlLinkFetches, dlRefetches, dlMime>>
    /\ UNCHANGED <<dlFormats, dlPages>>
    /\ DlOnly

DlNext ==
    \/ DlMissingId
    \/ DlBadId
    \/ DlParseThrows
    \/ DlStartWiki
    \/ DlWsFirstPage
    \/ DlWsLinks
    \/ DlWsNextPage
    \/ DlWsPageMissing
    \/ DlFetchFails
    \/ DlStartGutenberg
    \/ DlGutNotFound
    \/ DlGutBook
    \/ DlGutFileFails
    \/ DlGutFile

(***************************************************************************)
(* src/server.js: pickBestFormat and its caller downloadGutenberg.         *)
(* A formats map is the sequence of its entries [key, url] in insertion    *)
(* order, with distinct keys; the url "" is the empty string.              *)
(***************************************************************************)
\* `candidates` of pickBestFormat, in order
FormatCandidates ==
    <<"application/epub+zip", "application/x-mobipocket-ebook",
      "text/plain; charset=utf-8", "text/plain">>

\* k.startsWith("text/plain"), for the keys of MimeKeys
StartsWithTextPlain(k) ==
    k \in {"text/plain; charset=utf-8", "text/plain", "text/plain; charset=us-ascii"}

\* the keys and the urls a formats map is made of
MimeKeys ==
    {"application/epub+zip", "application/x-mobipocket-ebook",
     "text/plain; charset=utf-8", "text/plain", "text/plain; charset=us-ascii",
     "text/html"}
FormatUrls == {"", "u1", "u2"}
FormatMaps ==
    {m \in SeqsUpTo([key : MimeKeys, url : FormatUrls], MaxFormats) :
        \A i, j \in 1..Len(m) : m[i].key = m[j].key => i = j}

\* formats[k]: "" stands for undefined as well, both are falsy
UrlOf(formats, k) ==
    IF \E i \in 1..Len(formats) : formats[i].key = k
    THEN formats[CHOOSE i \in 1..Len(formats) : formats[i].key = k].url
    ELSE ""

\* the value null of pickBestFormat
NoFormat == [mime |-> "", url |-> "", found |-> FALSE]

\* pickBestFormat without the text/plain fallback
pickBestFormat_NoFallback(formats) ==
    LET exact == {i \in 1..Len(FormatCandidates) : UrlOf(formats, FormatCandidates[i]) # ""}
    IN  IF exact # {}
        THEN [mime |-> FormatCandidates[SetMin(exact)],
              url |-> UrlOf(formats, FormatCandidates[SetMin(exact)]), found |-> TRUE]
        ELSE NoFormat

\* pickBestFormat(formats)
pickBestFormat(formats) ==
    LET exact == {i \in 1..Len(FormatCandidates) : UrlOf(formats, FormatCandidates[i]) # ""}
        plain == {j \in 1..Len(formats) : StartsWithTextPlain(formats[j].key)}
    IN  IF exact # {}
        THEN [mime |-> FormatCandidates[SetMin(exact)],
              url |-> UrlOf(formats, FormatCandidates[SetMin(exact)]), found |-> TRUE]
        ELSE IF plain # {}
        THEN [mime |-> formats[SetMin(plain)].key,
              url |-> formats[SetMin(plain)].url, found |-> TRUE]
        ELSE NoFormat

\* downloadGutenberg(gId) has requested the book record
FmtInit ==
    fmt = [pc |-> "book", formats |-> <<>>, best |-> NoFormat,
           fileRequested |-> FALSE, error |-> "", sent |-> FALSE]

\* `if (!r.ok) throw new Error("Gutenberg book failed: ...")`
FmtBookFails ==
    /\ fmt.pc = "book"
    /\ fmt' = [fmt EXCEPT !.pc = "done", !.error = "Gutenberg book failed"]
    /\ FmtOnly

\* the book record arrives: pickBestFormat, then the throw or the file request
FmtBook ==
    /\ fmt.pc = "book"
    /\ \E formats \in FormatMaps :
           LET best == pickBestFormat(formats)
           IN  fmt' = IF ~best.found
                      THEN [fmt EXCEPT !.pc = "done", !.formats = formats, !.best = best,
                                       !.error = "No downloadable format found"]
                      ELSE [fmt EXCEPT !.pc = "file", !.formats = formats, !.best = best,
                                       !.fileRequested = TRUE]
    /\ FmtOnly

\* `if (!fileResp.ok) throw new Error("Download failed: ...")`
FmtFileFails ==
    /\ fmt.pc = "file"
    /\ fmt' = [fmt EXCEPT !.pc = "done", !.error = "Download failed"]
    /\ FmtOnly

\* the file arrives and is returned
FmtFile ==
    /\ fmt.pc = "file"
    /\ fmt' = [fmt EXCEPT !.pc = "done", !.sent = TRUE]
    /\ FmtOnly

FmtNext == FmtBookFails \/ FmtBook \/ FmtFileFails \/ FmtFile

(***************************************************************************)
(* searchGutenberg on its own. The catalog's answer is                     *)
(* [hasResults, results, next]: `results` the ids of the books in order    *)
(* (hasResults = FALSE when the field is missing), `next` the next-page    *)
(* pointer: "null", "absent" or "url".                                     *)
(***************************************************************************)
\* the decimal ids of books: "8", "12", "7"
CatBookIds == {<<56>>, <<49, 50>>, <<55>>}

CatAnswers ==
    {d \in [hasResults : BOOLEAN, results : SeqsUpTo(CatBookIds, MaxResults),
            next : {"null", "absent", "url"}] :
        ~d.hasResults => d.results = <<>>}

\* searchGutenberg that derives hasMore from the number of results
searchGutenberg_CountHasMore(data) ==
    [items |-> [i \in 1..Len(data.results) |->
                   [id |-> makeId("gutenberg", data.results[i]).v, source |-> "gutenberg"]],
     hasMore |-> Len(data.results) > 0]

\* searchGutenberg(q, page) for the answer `data` of the catalog:
\* (data.results || []).map(...) and Boolean(data.next)
searchGutenberg(data) ==
    [items |-> [i \in 1..Len(data.results) |->
                   [id |-> makeId("gutenberg", data.results[i]).v, source |-> "gutenberg"]],
     hasMore |-> data.next = "url"]

CatInit ==
    cat = [pc |-> "ready",
           data |-> [hasResults |-> FALSE, results |-> <<>>, next |-> "absent"],
           items |-> <<>>, hasMore |-> FALSE, failed |-> FALSE]

\* fetchJson throws: the search rejects
CatFetchFails ==
    /\ cat.pc = "ready"
    /\ cat' = [cat EXCEPT !.pc = "done", !.failed = TRUE]
    /\ CatOnly

\* the catalog answers and the items are built
CatSearch ==
    /\ cat.pc = "ready"
    /\ \E data \in CatAnswers :
           cat' = [cat EXCEPT !.pc = "done", !.data = data,
                              !.items = searchGutenberg(data).items,
                              !.hasMore = searchGutenberg(data).hasMore]
    /\ CatOnly

CatNext == CatFetchFails \/ CatSearch

(***************************************************************************)
(* src/unnamed/part_001: searchStandardEbooks. The parsed feed is the      *)
(* sequence of its entries, numbered in feed order.                        *)
(***************************************************************************)
\* `const pageSize = 25`
SePageSize == 25

\* Array.prototype.slice(start, end) for 0 <= start <= end
slice(s, start, end) ==
    SubSeq(s, (IF start < Len(s) THEN start ELSE Len(s)) + 1,
              IF end < Len(s) THEN end ELSE Len(s))

\* searchStandardEbooks with hasMore true up to the last full page
searchStandardEbooks_InclusiveMore(entries, page) ==
    LET start == (page - 1) * SePageSize
    IN  [page |-> page,
         hasMore |-> start + SePageSize <= Len(entries),
         results |-> slice(entries, start, start + SePageSize)]

\* searchStandardEbooks(q, page) for the parsed `entries` of the feed
searchStandardEbooks(entries, page) ==
    LET start == (page - 1) * SePageSize
    IN  [page |-> page,
         hasMore |-> start + SePageSize < Len(entries),
         results |-> slice(entries, start, start + SePageSize)]

\* the feed with n entries
FeedOf(n) == [i \in 1..n |-> i]

SeInit ==
    /\ se \in [pc : {"ready"}, page : 1..MaxPage, entries : {<<>>},
               out : {[page |-> 0, hasMore |-> FALSE, results |-> <<>>]},
               failed : {FALSE}]

\* fetchText throws: the search rejects
SeFetchFails ==
    /\ se.pc = "ready"
    /\ se' = [se EXCEPT !.pc = "done", !.failed = TRUE]
    /\ SeOnly

\* the feed arrives, is parsed and sliced
SeSearch ==
    /\ se.pc = "ready"
    /\ \E n \in 0..MaxEntries :
           se' = [se EXCEPT !.pc = "done", !.entries = FeedOf(n),
                            !.out = searchStandardEbooks(FeedOf(n), se.page)]
    /\ SeOnly

SeNext == SeFetchFails \/ SeSearch

(***************************************************************************)
(* searchWikisource on its own. The wiki's answer is [returned, total]:    *)
(* the number of hits of the page and the reported total hit count         *)
(* (present = FALSE when totalhits is missing).                            *)
(***************************************************************************)
\* `const limit = 20`
WikiLimit == 20

\* `const offset = (page - 1) * limit`
WikiOffset(page) == (page - 1) * WikiLimit

WikiAnswers ==
    [returned : 0..WikiLimit, total : [present : {TRUE}, v : 0..MaxTotal]
                                       \cup {[present |-> FALSE, v |-> 0]}]

\* searchWikisource with hasMore true when the total is just reached
searchWikisource_InclusiveMore(tag, page, answer) ==
    LET total == IF answer.total.present THEN answer.total.v ELSE 0
    IN  [items |-> ItemsOf(tag, answer.returned),
         hasMore |-> WikiOffset(page) + answer.returned <= total]

\* searchWikisource(apiUrl, q, page, tag) for the `answer` of the wiki
searchWikisource(tag, page, answer) ==
    LET total == IF answer.total.present THEN answer.total.v ELSE 0
    IN  [items |-> ItemsOf(tag, answer.returned),
         hasMore |-> WikiOffset(page) + answer.returned < total]

WsInit ==
    /\ ws \in [pc : {"ready"}, tag : {"wsrc-ru", "wsrc-ua"}, page : 1..MaxPage,
               sroffset : {0}, srlimit : {0},
               answer : {[returned |-> 0, total |-> [present |-> FALSE, v |-> 0]]},
               items : {<<>>}, hasMore : {FALSE}, failed : {FALSE}]

\* the search request is sent with srlimit and sroffset
WsRequest ==
    /\ ws.pc = "ready"
    /\ ws' = [ws EXCEPT !.pc = "waiting", !.srlimit = WikiLimit,
                        !.sroffset = WikiOffset(ws.page)]
    /\ WsOnly

\* fetchJson throws: the search rejects
WsFetchFails ==
    /\ ws.pc = "waiting"
    /\ ws' = [ws EXCEPT !.pc = "done", !.failed = TRUE]
    /\ WsOnly

\* the wiki answers
WsAnswer ==
    /\ ws.pc = "waiting"
    /\ \E answer \in WikiAnswers :
           ws' = [ws EXCEPT !.pc = "done", !.answer = answer,
                            !.items = searchWikisource(ws.tag, ws.page, answer).items,
                            !.hasMore = searchWikisource(ws.tag, ws.page, answer).hasMore]
    /\ WsOnly

WsNext == WsRequest \/ WsFetchFails \/ WsAnswer

(***************************************************************************)
(* src/unnamed/part_000: the catalog-only GET /download-best.              *)
(***************************************************************************)
\* `candidates` of the handler, in order
CoCandidates ==
    <<"text/plain; charset=utf-8", "text/plain", "application/epub+zip">>

\* "index", "contents"
WordIndexLower == <<105, 110, 100, 101, 120>>
WordContentsLower == <<99, 111, 110, 116, 101, 110, 116, 115>>

\* String.prototype.includes(w)
includes(s, w) ==
    \E i \in 1..(Len(s) - Len(w) + 1) : SubSeq(s, i, i + Len(w) - 1) = w

\* the urls of a formats map: none (the key is missing), "u/b",
\* "u/index", "contents/b", "u/Index"
CoUrls ==
    {<<>>, <<117, 47, 98>>, <<117, 47>> \o WordIndexLower,
     WordContentsLower \o <<47, 98>>, <<117, 47, 73, 110, 100, 101, 120>>}
CoFormatMaps == [{CoCandidates[i] : i \in 1..Len(CoCandidates)} -> CoUrls]

\* the guard that only knows "index"
IsIndexUrl_IndexOnly(fileUrl) == includes(fileUrl, WordIndexLower)

\* `fileUrl.includes("index") || fileUrl.includes("contents")`
IsIndexUrl(fileUrl) ==
    includes(fileUrl, WordIndexLower) \/ includes(fileUrl, WordContentsLower)

\* the url of the first candidate the map holds, <<>> when it holds none
CoFileUrl(formats) ==
    LET hit == {i \in 1..Len(CoCandidates) : formats[CoCandidates[i]] # <<>>}
    IN  IF hit = {} THEN <<>> ELSE formats[CoCandidates[SetMin(hit)]]

CoInit ==
    /\ co \in [pc : {"start"}, hasId : BOOLEAN,
               formats : {[k \in {CoCandidates[i] : i \in 1..Len(CoCandidates)} |-> <<>>]},
               fileUrl : {<<>>}, fetched : {{}}, size : {0},
               status : {0}, error : {""}, sentFrom : {<<>>}, sentBytes : {0}]

\* the answer res.status(code).json({error})
CoFail(code, error) == [co EXCEPT !.pc = "done", !.status = code, !.error = error]

\* `if (!id) return res.status(400)...`
CoMissingId ==
    /\ co.pc = "start"
    /\ ~co.hasId
    /\ co' = CoFail(400, "Missing id")
    /\ CoOnly

\* the book record is requested
CoMetaRequest ==
    /\ co.pc = "start"
    /\ co.hasId
    /\ co' = [co EXCEPT !.pc = "meta"]
    /\ CoOnly

\* `if (!metaResp.ok) throw new Error("Book metadata not found")`
CoMetaFails ==
    /\ co.pc = "meta"
    /\ co' = CoFail(500, "Book metadata not found")
    /\ CoOnly

\* the book record arrives: candidate choice, the two rejections, or the
\* request of the file
CoMeta ==
    /\ co.pc = "meta"
    /\ \E formats \in CoFormatMaps :
           LET fileUrl == CoFileUrl(formats)
           IN  co' = IF fileUrl = <<>>
                         THEN [CoFail(404, "No full book format found")
                                  EXCEPT !.formats = formats]
                     ELSE IF IsIndexUrl(fileUrl)
                         THEN [CoFail(400, "Index/list page")
                                  EXCEPT !.formats = formats, !.fileUrl = fileUrl]
                     ELSE [co EXCEPT !.pc = "file", !.formats = formats,
                                     !.fileUrl = fileUrl, !.fetched = {fileUrl}]
    /\ CoOnly

\* `if (!fileResp.ok) throw new Error("File download failed")`
CoFileFails ==
    /\ co.pc = "file"
    /\ co' = CoFail(500, "File download failed")
    /\ CoOnly

\* the floor of `buffer.length < 15_000`
MinBookBytes == 15000

\* the lengths of the downloaded files
CoSizes == {0, 1, MinBookBytes - 1, MinBookBytes, MinBookBytes + 1, 2 * MinBookBytes}

\* the size check that also rejects a file of exactly the floor
TooSmall_Inclusive(length) == length <= MinBookBytes

\* `buffer.length < 15_000`
TooSmall(length) == length < MinBookBytes

\* the file arrives: too small, a book without title (book.title.replace
\* throws), or the file is sent
CoFile ==
    /\ co.pc = "file"
    /\ \E size \in CoSizes, titled \in BOOLEAN :
           co' = IF TooSmall(size)
                     THEN [CoFail(400, "File too small") EXCEPT !.size = size]
                 ELSE IF ~titled
                     THEN [CoFail(500, "TypeError") EXCEPT !.size = size]
                 ELSE [co EXCEPT !.pc = "done", !.status = 200, !.size = size,
                                 !.sentFrom = co.fileUrl, !.sentBytes = size]
    /\ CoOnly

CoNext ==
    \/ CoMissingId
    \/ CoMetaRequest
    \/ CoMetaFails
    \/ CoMeta
    \/ CoFileFails
    \/ CoFile

(***************************************************************************)
(* src/unnamed/part_001: the sequential /search over the catalog and the   *)
(* OPDS feed. ENABLE_GUTENBERG and ENABLE_STANDARD_EBOOKS are true,        *)
(* ENABLE_INTERNET_ARCHIVE is false, so that branch is never taken. The    *)
(* record sq holds the query, the page, the outcome of each adapter call   *)
(* (g, se), the handler's locals results and hasMore, and the response.    *)
(***************************************************************************)
\* searchGutenberg of part_001 for the catalog's answer `data`: the id is
\* the template string `gutenberg:${b.id}`
searchGutenbergSeq(data) ==
    [results |-> [i \in 1..Len(data.results) |->
                     [id |-> TagUnits("gutenberg") \o <<58>> \o data.results[i],
                      source |-> "gutenberg"]],
     hasMore |-> data.next = "url"]

\* what the handler receives of searchStandardEbooks: `slice.map(...)`
\* makes one item of each entry of the page; the number of the entry
\* stands for the url its id is derived from
EbookItems(out) ==
    [results |-> [i \in 1..Len(out.results) |-> [id |-> <<out.results[i]>>, source |-> "se"]],
     hasMore |-> out.hasMore]

\* the queries of the sequential handler: none, blank, "a"
SqQueries == {<<>>, <<32>>, <<97>>}

NoCall == [state |-> "idle", results |-> <<>>, hasMore |-> FALSE]
Fulfilled(r) == [state |-> "fulfilled", results |-> r.results, hasMore |-> r.hasMore]
Rejected == [state |-> "rejected", results |-> <<>>, hasMore |-> FALSE]

SqInit ==
    sq \in [pc : {"start"}, q : SqQueries, page : 1..MaxPage,
            g : {NoCall}, se : {NoCall},
            results : {<<>>}, hasMore : {FALSE},
            status : {0}, error : {""}, sent : {<<>>}, sentMore : {FALSE}]

\* `if (!q) return res.json({ page, hasMore: false, results: [] })`
SqEmptyQuery ==
    /\ sq.pc = "start"
    /\ trim(sq.q) = <<>>
    /\ sq' = [sq EXCEPT !.pc = "done", !.status = 200]
    /\ SqOnly

\* a query is there: `const results = []; let hasMore = false`
SqBegin ==
    /\ sq.pc = "start"
    /\ trim(sq.q) # <<>>
    /\ sq' = [sq EXCEPT !.pc = "gutenberg"]
    /\ SqOnly

\* `const g = await searchGutenberg(q, page)` returns: its results are
\* pushed and hasMore is or-ed
SqCatalog ==
    /\ sq.pc = "gutenberg"
    /\ \E data \in CatAnswers :
           LET g == searchGutenbergSeq(data)
           IN  sq' = [sq EXCEPT !.pc = "se", !.g = Fulfilled(g),
                                !.results = sq.results \o g.results,
                                !.hasMore = sq.hasMore \/ g.hasMore]
    /\ SqOnly

\* searchGutenberg throws (fetch rejects or `!r.ok`): the await is not in a
\* try of its own, so the handler's catch answers 500
SqCatalogFails ==
    /\ sq.pc = "gutenberg"
    /\ sq' = [sq EXCEPT !.pc = "done", !.g = Rejected,
                        !.status = 500, !.error = "Gutenberg HTTP"]
    /\ SqOnly

\* `const se = await searchStandardEbooks(q, page)` returns inside its try
SqEbooks ==
    /\ sq.pc = "se"
    /\ \E n \in 0..MaxEntries :
           LET e == EbookItems(searchStandardEbooks(FeedOf(n), sq.page))
           IN  sq' = [sq EXCEPT !.pc = "respond", !.se = Fulfilled(e),
                                !.results = sq.results \o e.results,
                                !.hasMore = sq.hasMore \/ e.hasMore]
    /\ SqOnly

\* searchStandardEbooks throws: the inner catch only warns
SqEbooksFails ==
    /\ sq.pc = "se"
    /\ sq' = [sq EXCEPT !.pc = "respond", !.se = Rejected]
    /\ SqOnly

\* `res.json({ page, hasMore, results })`
SqRespond ==
    /\ sq.pc = "respond"
    /\ sq' = [sq EXCEPT !.pc = "done", !.status = 200,
                        !.sent = sq.results, !.sentMore = sq.hasMore]
    /\ SqOnly

SqNext ==
    \/ SqEmptyQuery
    \/ SqBegin
    \/ SqCatalog
    \/ SqCatalogFails
    \/ SqEbooks
    \/ SqEbooksFails
    \/ SqRespond

(***************************************************************************)
(* Specifications: each part on its own, the other parts idle.             *)
(***************************************************************************)
AdIdle == fmt = Off /\ cat = Off /\ se = Off /\ ws = Off /\ co = Off /\ sq = Off
MainIdle == IdIdle /\ ClsIdle /\ HdrIdle /\ SIdle /\ DlIdle

InitCodec == IdInit /\ ClsIdle /\ HdrIdle /\ SIdle /\ DlIdle /\ AdIdle
InitClassifier == IdIdle /\ ClsInit /\ HdrIdle /\ SIdle /\ DlIdle /\ AdIdle
InitHeaders == IdIdle /\ ClsIdle /\ HdrInit /\ SIdle /\ DlIdle /\ AdIdle
InitSearch == IdIdle /\ ClsIdle /\ HdrIdle /\ SInit /\ DlIdle /\ AdIdle
Init == IdIdle /\ ClsIdle /\ HdrIdle /\ SIdle /\ DlInit /\ AdIdle

Next == DlNext

\* makeId and parseId
SpecCodec == InitCodec /\ [][IdNext]_vars

\* looksLikeIndexOrList and pickBestLink
SpecClassifier == InitClassifier /\ [][ClsNext]_vars

\* setDownloadHeaders
SpecHeaders == InitHeaders /\ [][HdrNext]_vars

\* one /search request
SpecSearch == InitSearch /\ [][SNext]_vars

\* one /download-best request
Spec == Init /\ [][Next]_vars

InitFormat ==
    MainIdle /\ FmtInit /\ cat = Off /\ se = Off /\ ws = Off /\ co = Off /\ sq = Off

\* pickBestFormat under downloadGutenberg of src/server.js
SpecFormat == InitFormat /\ [][FmtNext]_vars

InitCatalogSearch ==
    MainIdle /\ CatInit /\ fmt = Off /\ se = Off /\ ws = Off /\ co = Off /\ sq = Off

\* searchGutenberg
SpecCatalogSearch == InitCatalogSearch /\ [][CatNext]_vars

InitEbooks ==
    MainIdle /\ SeInit /\ fmt = Off /\ cat = Off /\ ws = Off /\ co = Off /\ sq = Off

\* searchStandardEbooks
SpecEbooks == InitEbooks /\ [][SeNext]_vars

InitWikiSearch ==
    MainIdle /\ WsInit /\ fmt = Off /\ cat = Off /\ se = Off /\ co = Off /\ sq = Off

\* searchWikisource
SpecWikiSearch == InitWikiSearch /\ [][WsNext]_vars

InitCatalogOnly ==
    MainIdle /\ CoInit /\ fmt = Off /\ cat = Off /\ se = Off /\ ws = Off /\ sq = Off

\* the catalog-only /download-best of src/unnamed/part_000
SpecCatalogOnly == InitCatalogOnly /\ [][CoNext]_vars

InitSequentialSearch ==
    MainIdle /\ SqInit /\ fmt = Off /\ cat = Off /\ se = Off /\ ws = Off /\ co = Off

\* the sequential /search of src/unnamed/part_001
SpecSequentialSearch == InitSequentialSearch /\ [][SqNext]_vars

(***************************************************************************)
(* Properties.                                                             *)
(***************************************************************************)
WikiSources == {"wsrc-ru", "wsrc-ua"}

\* the title starts with the prefix of a service namespace
HasBadPrefix(t) == \E p \in BadPrefixes : startsWith(t, p)

\* C1: one Wikisource download performs at most 2 link-list fetches and at
\* most 2 re-fetches of a linked page after the first page fetch (so at most
\* 5 upstream requests in all), whatever the upstream answers, and ends
\* with a file or with an error.
C1_HopBound ==
    /\ dlLinkFetches <= 2
    /\ dlRefetches <= 2
    /\ dlHop <= 2
    /\ (dlParsed.source \in WikiSources => dlUpstream <= 5)
    /\ (dlPc = "done" =>
            \/ dlResponse.kind = "file" /\ dlResponse.status = 200
            \/ dlResponse.kind = "json" /\ dlResponse.status \in {400, 500})

\* both hops were made, each landed on another index page, and the request
\* ended with the index-page error
C1_Witness ==
    /\ dlPc = "done"
    /\ dlLinkFetches = 2
    /\ dlRefetches = 2
    /\ dlExit = "hops"
    /\ dlResponse.error = IndexPageError

\* the final (resolvedTitle, text) of the download is not a work
FinalPageIsIndex == dlText = <<>> \/ looksLikeIndexOrList(dlResolvedTitle, dlText)

\* C2 as stated: a Wikisource download sends a file only when the final
\* (resolvedTitle, text) has a non-empty text and is classified a work; in
\* every other outcome it fails with the index-page error, and no book
\* bytes are sent.
C2_Original ==
    dlPc = "done" /\ dlParsed.source \in WikiSources =>
        /\ dlResponse.kind = "file" => ~FinalPageIsIndex
        /\ dlExit = "throw" \/ FinalPageIsIndex
           => /\ dlResponse.error = IndexPageError
              /\ dlResponse.bytes = <<>>

\* C2 as amended: a Wikisource download sends a file only when the final
\* (resolvedTitle, text) has a non-empty text and is classified a work, and
\* the file is that page; when the page is still an index after the hops,
\* when no candidate link existed, or when a hop did not advance, the
\* request fails with the index-page error; when an upstream request fails
\* or the requested page is missing it fails with that error; in none of
\* these outcomes are book bytes sent.
C2_NoIndexDelivered ==
    dlPc = "done" /\ dlParsed.source \in WikiSources =>
        /\ dlResponse.kind = "file" =>
              /\ ~FinalPageIsIndex
              /\ dlExit \in {"work", "hops"}
              /\ dlResponse.bytes = dlText
              /\ dlResponse.title = dlResolvedTitle
        /\ dlExit \in {"nolink", "stuck"} => FinalPageIsIndex
        /\ dlExit # "throw" /\ FinalPageIsIndex
           => /\ dlResponse.status = 500
              /\ dlResponse.kind = "json"
              /\ dlResponse.error = IndexPageError
              /\ dlResponse.bytes = <<>>
        /\ dlExit = "throw"
           => /\ dlResponse.status = 500
              /\ dlResponse.kind = "json"
              /\ dlResponse.error \in {"Page not found", "Fetch failed"}
              /\ dlResponse.bytes = <<>>

\* a hop fetched a page with the title already in hand, and the request
\* failed with the index-page error
C2_Witness ==
    /\ dlPc = "done"
    /\ dlExit = "stuck"
    /\ dlRefetches >= 1
    /\ dlResponse.status = 500
    /\ dlResponse.error = IndexPageError

\* the items of adapter a in a result list, in their order there
ItemsFrom(results, a) == LET FromA(x) == x.source = a IN SelectSeq(results, FromA)

\* the items adapter a fulfilled with, none when it rejected
FulfilledItems(a) ==
    IF sCalls[a].state = "fulfilled" THEN sCalls[a].items ELSE <<>>

\* C3: whichever adapters reject, the /search request succeeds, the results
\* hold exactly the items of the adapters that fulfilled (none of a rejected
\* one), and hasMore is the OR of hasMore over the fulfilled adapters.
C3_Isolation ==
    sPc = "done" /\ trim(sQuery) # <<>> =>
        /\ sResponse.status = 200
        /\ \A a \in AdapterSet : ItemsFrom(sResponse.results, a) = FulfilledItems(a)
        /\ Len(sResponse.results)
             = Len(FulfilledItems("gutenberg")) + Len(FulfilledItems("wsrc-ru"))
               + Len(FulfilledItems("wsrc-ua"))
        /\ sResponse.hasMore
             = (\E a \in AdapterSet : sCalls[a].state = "fulfilled" /\ sCalls[a].hasMore)

\* one adapter rejected, another fulfilled with items and hasMore, and the
\* request was answered
C3_Witness ==
    /\ sPc = "done"
    /\ sResponse.status = 200
    /\ sCalls["gutenberg"].state = "rejected"
    /\ sCalls["wsrc-ru"].state = "fulfilled"
    /\ Len(sCalls["wsrc-ru"].items) = 2
    /\ sCalls["wsrc-ru"].hasMore
    /\ sCalls["wsrc-ua"].state = "rejected"

\* C4: every adapter call is started before the handler awaits, and the
\* response is sent only once every call has settled: a rejection does not
\* make the handler answer while another call is pending.
C4_WaitForAll ==
    /\ sPc = "waiting" => \A a \in AdapterSet : sCalls[a].state # "idle"
    /\ sResponse.status = 200 =>
           \A a \in AdapterSet : sCalls[a].state \in {"fulfilled", "rejected"}
    /\ (\E a \in AdapterSet : sCalls[a].state = "pending") => sResponse.status = 0

\* a call has rejected while another is still pending, and the handler
\* still waits
C4_Witness ==
    /\ sPc = "waiting"
    /\ sCalls["gutenberg"].state = "rejected"
    /\ sCalls["wsrc-ua"].state = "pending"
    /\ sResponse.status = 0

\* a character of the Cyrillic script: the blocks Cyrillic, Cyrillic
\* Supplement, Extended-A, Extended-B and Extended-C
IsCyrillic(c) ==
    \/ (1024 <= c /\ c <= 1327)
    \/ (7296 <= c /\ c <= 7311)
    \/ (11744 <= c /\ c <= 11775)
    \/ (42560 <= c /\ c <= 42655)

WikiFirst(r) ==
    \A i, j \in 1..Len(r) :
        r[i].source \in WikiSources /\ r[j].source = "gutenberg" => i < j

CatalogFirst(r) ==
    \A i, j \in 1..Len(r) :
        r[i].source = "gutenberg" /\ r[j].source \in WikiSources => i < j

\* two items of one adapter keep the order the adapter returned them in
AdapterOrderKept(r) ==
    \A i, j \in 1..Len(r) :
        r[i].source = r[j].source /\ r[i].k < r[j].k => i < j

\* C5 as stated: with any Cyrillic character in the query the wiki items
\* come first, without one the catalog items come first, and the items of
\* one adapter keep their order.
C5_Original ==
    sPc = "done" /\ sResponse.status = 200 =>
        /\ (\E i \in 1..Len(sQuery) : IsCyrillic(sQuery[i])) => WikiFirst(sResponse.results)
        /\ ~(\E i \in 1..Len(sQuery) : IsCyrillic(sQuery[i])) => CatalogFirst(sResponse.results)
        /\ AdapterOrderKept(sResponse.results)

\* C6 as stated: for every recognised tag and every payload, parseId of
\* makeId(tag, payload) is {source: tag, value: payload}.
C6_RoundTrip ==
    idPc = "decoded" /\ idTag \in Tags => idParsed = Parsed(idTag, idPayload)

\* the id has no colon
NoColon(id) == \A i \in 1..Len(id) : id[i] # 58

\* the units of the id before its first colon
TagPrefixOf(id) ==
    LET first == CHOOSE i \in 1..Len(id) : id[i] = 58 /\ \A j \in 1..(i - 1) : id[j] # 58
    IN  SubSeq(id, 1, first - 1)

\* the id has no tag prefix, or its tag is none of the recognised ones
Malformed(id) == NoColon(id) \/ TagPrefixOf(id) \notin {TagUnits(t) : t \in Tags}

\* C7: for an id without a colon-separated tag prefix or with an
\* unrecognised tag, parseId returns null and /download-best answers 400
\* without any upstream request.
C7_MalformedId ==
    Malformed(dlId) =>
        /\ dlUpstream = 0
        /\ dlParsed = ParsedNull
        /\ dlPc = "done" => dlResponse.status = 400 /\ dlResponse.kind = "json"

\* an id with the tag of no source was answered 400 "Bad id format"
C7_Witness ==
    /\ dlPc = "done"
    /\ ~NoColon(dlId)
    /\ TagPrefixOf(dlId) = TagUnits("archive")
    /\ dlResponse.status = 400
    /\ dlResponse.error = "Bad id format"

\* C8: a page whose title starts with a service-namespace prefix is
\* classified not-a-work whatever its text, is not delivered, and no such
\* title is picked as the link to follow.
C8_BadTitle ==
    /\ clsPc = "classified" /\ HasBadPrefix(clsTitle) => clsResult /\ ~clsDelivered
    /\ clsPc = "picked" /\ clsBest.found => ~HasBadPrefix(clsBest.title)

\* "Category:Novels" with a long text free of list lines and keywords is
\* classified not-a-work
C8_Witness ==
    /\ clsPc = "classified"
    /\ clsTitle = TitleCategoryNovels
    /\ clsText.len = 12000
    /\ clsText.bullets = 0
    /\ clsText.kw = "none"
    /\ clsResult

\* the generated text triggers the heading rule or a keyword rule
TriggersKeywordRule(d) ==
    \/ d.kw = "heading"
    \/ d.kw = "contents" /\ d.len < 8000
    \/ d.kw \in {"works", "worksLower"} /\ d.len < 12000

\* C9 as stated: with a title without service prefix and a text that
\* triggers no heading or keyword rule, the page is not-a-work exactly when
\* the trimmed text is non-empty, under 2,000 units and has at least 8 list
\* lines.
C9_Original ==
    clsPc = "classified" /\ ~HasBadPrefix(trim(clsTitle)) /\ ~TriggersKeywordRule(clsText) =>
        (clsResult <=> (clsText.len > 0 /\ clsText.len < 2000 /\ clsText.bullets >= 8))

\* C9 as amended: with a title that is non-empty once trimmed and has no
\* service prefix, and a text that is non-empty once trimmed and triggers no
\* heading or keyword rule, the page is not-a-work exactly when the trimmed
\* text is under 2,000 units and has at least 8 list lines.
C9_ListRule ==
    /\ clsPc = "classified"
    /\ trim(clsTitle) # <<>>
    /\ ~HasBadPrefix(trim(clsTitle))
    /\ clsText.len > 0
    /\ ~TriggersKeywordRule(clsText)
    => (clsResult <=> (clsText.len < 2000 /\ clsText.bullets >= 8))

\* a text of 1,999 units with exactly 8 list lines is classified not-a-work
C9_Witness ==
    /\ clsPc = "classified"
    /\ clsTitle = TitleN
    /\ clsText.len = 1999
    /\ clsText.bullets = 8
    /\ clsText.kw = "none"
    /\ clsResult

\* C10: the Content-Disposition value setDownloadHeaders builds holds only
\* printable ASCII characters, for every title and every extension of the
\* download paths.
C10_PrintableAscii ==
    hdrPc = "set" =>
        \A i \in 1..Len(hdrValue.v) : 32 <= hdrValue.v[i] /\ hdrValue.v[i] <= 126

\* the header was built for a title made of a Cyrillic letter and a line
\* break
C10_Witness ==
    /\ hdrPc = "set"
    /\ hdrTitle = <<1103, 10>>
    /\ Len(hdrValue.v) > 0

\* the filename* parameter of a Content-Disposition value: the text after
\* the first pair of apostrophes (the fallback name holds none)
FilenameStar(v) ==
    LET at == CHOOSE i \in 1..(Len(v) - 1) :
                  /\ v[i] = 39 /\ v[i + 1] = 39
                  /\ \A j \in 1..(i - 1) : ~(v[j] = 39 /\ v[j + 1] = 39)
    IN  SubSeq(v, at + 2, Len(v))

\* C11: for every non-empty title and every extension, percent-decoding the
\* filename* parameter of the header setDownloadHeaders builds gives the
\* title followed by "." and the extension.
C11_FilenameStarDecodes ==
    hdrPc = "set" /\ hdrTitle # <<>> =>
        decodeURIComponent(FilenameStar(hdrValue.v)) = Ok(hdrTitle \o <<46>> \o hdrExt)

\* the header was built for the title made of Cyrillic ya and a percent sign
C11_Witness ==
    /\ hdrPc = "set"
    /\ hdrTitle = <<1103, 37>>
    /\ hdrExt = ExtTxt
    /\ Len(FilenameStar(hdrValue.v)) > Len(hdrTitle) + 4

\* the priority keys of the formats map that hold a non-empty url
PresentCandidates(formats) ==
    {i \in 1..Len(FormatCandidates) :
        \E j \in 1..Len(formats) :
            formats[j].key = FormatCandidates[i] /\ formats[j].url # ""}

\* the keys of the formats map that start with "text/plain"
PlainKeys(formats) ==
    {formats[j].key : j \in {i \in 1..Len(formats) : StartsWithTextPlain(formats[i].key)}}

\* C12: pickBestFormat returns the entry of the first priority MIME type
\* present with a non-empty url; when there is none, an entry whose key
\* starts with "text/plain"; and null exactly when there is neither, the
\* empty map included; on null the caller fails with the no-format error
\* and requests no file.
C12_PickBestFormat ==
    fmt.pc \in {"file", "done"} /\ fmt.error # "Gutenberg book failed" =>
        LET present == PresentCandidates(fmt.formats)
            plain == PlainKeys(fmt.formats)
        IN  /\ present # {} =>
                  /\ fmt.best.found
                  /\ fmt.best.mime = FormatCandidates[SetMin(present)]
                  /\ \E j \in 1..Len(fmt.formats) :
                         fmt.formats[j] = [key |-> fmt.best.mime, url |-> fmt.best.url]
            /\ present = {} /\ plain # {} =>
                  /\ fmt.best.found
                  /\ fmt.best.mime \in plain
                  /\ \E j \in 1..Len(fmt.formats) :
                         fmt.formats[j] = [key |-> fmt.best.mime, url |-> fmt.best.url]
            /\ ~fmt.best.found <=> (present = {} /\ plain = {})
            /\ fmt.formats = <<>> => ~fmt.best.found
            /\ ~fmt.best.found =>
                  /\ fmt.pc = "done"
                  /\ fmt.error = "No downloadable format found"
                  /\ ~fmt.fileRequested
                  /\ ~fmt.sent

\* a map whose only priority key has an empty url and that holds a
\* text/plain key with another charset: the fallback entry was picked
C12_Witness ==
    /\ fmt.pc = "file"
    /\ Len(fmt.formats) = 2
    /\ fmt.formats[1] = [key |-> "application/epub+zip", url |-> ""]
    /\ fmt.formats[2] = [key |-> "text/plain; charset=us-ascii", url |-> "u1"]
    /\ fmt.best = [mime |-> "text/plain; charset=us-ascii", url |-> "u1", found |-> TRUE]

\* C13 as stated: downloadGutenberg resolves a book that offers a text/plain
\* entry in any charset to a text/plain entry, never to the EPUB or the HTML
\* entry, and a book that offers EPUB never to the HTML entry.
C13_Priority ==
    dlMime # "" =>
        /\ (\E k \in dlFormats : StartsWithTextPlain(k)) =>
               dlMime \notin {"application/epub+zip", "text/html; charset=utf-8"}
        /\ "application/epub+zip" \in dlFormats => dlMime # "text/html; charset=utf-8"

\* C14 as stated: a /download-best request that fails in resolution because
\* the upstream record is gone, no acceptable format exists or the wiki page
\* stays an index page is answered 404 or 400.
C14_ResolutionStatus ==
    /\ dlPc = "done"
    /\ dlResponse.error \in {"Book not found", "No readable format found", IndexPageError}
    => dlResponse.status \in {400, 404}

\* C15: the download headers and the body bytes are written only after the
\* identifier was parsed, the metadata resolved and the bytes fetched
\* completely; a request in which one of these steps fails is answered with
\* an error status and a JSON error body, without book bytes.
C15_NoPartialBytes ==
    /\ dlResponse.bytes # <<>> \/ dlResponse.disposition # <<>> =>
          /\ dlPc = "done"
          /\ dlResponse.kind = "file"
          /\ dlResponse.status = 200
          /\ dlResponse.bytes # <<>>
          /\ dlResponse.disposition # <<>>
          /\ dlParsed.kind = "ok"
          /\ dlParsed.source = "gutenberg" =>
                 dlMime # "" /\ dlUpstream = 2 /\ dlResponse.bytes = BookBytes
          /\ dlParsed.source \in WikiSources =>
                 /\ dlExit \in {"work", "hops"}
                 /\ dlUpstream >= 1
                 /\ dlResponse.bytes = dlText
    /\ dlPc = "done" /\ dlResponse.kind # "file" =>
          /\ dlResponse.kind = "json"
          /\ dlResponse.status \in {400, 500}
          /\ dlResponse.error # ""
          /\ dlResponse.bytes = <<>>
          /\ dlResponse.disposition = <<>>
    /\ dlPc # "done" => dlResponse = NoResponse

\* the metadata was resolved and the file requested, the byte fetch failed,
\* and the answer is a JSON error without bytes
C15_Witness ==
    /\ dlPc = "done"
    /\ dlMime # ""
    /\ dlUpstream = 2
    /\ dlResponse.error = "Failed to fetch book file"
    /\ dlResponse.kind = "json"
    /\ dlResponse.bytes = <<>>

\* C16: the catalog search returns one item per upstream result in upstream
\* order, each id being the tag "gutenberg", a colon and the book's id, and
\* hasMore is true exactly when the answer carries a next-page pointer; with
\* no results it returns the empty list and does not fail.
C16_CatalogSearch ==
    cat.pc = "done" /\ ~cat.failed =>
        /\ Len(cat.items) = Len(cat.data.results)
        /\ \A i \in 1..Len(cat.items) :
               /\ cat.items[i].id = TagUnits("gutenberg") \o <<58>> \o cat.data.results[i]
               /\ cat.items[i].id # <<>>
               /\ cat.items[i].source = "gutenberg"
        /\ cat.hasMore <=> cat.data.next = "url"
        /\ cat.data.results = <<>> => cat.items = <<>>

\* one book and a null next pointer: one item, hasMore false
C16_Witness ==
    /\ cat.pc = "done"
    /\ ~cat.failed
    /\ cat.data = [hasResults |-> TRUE, results |-> << <<56>> >>, next |-> "null"]
    /\ Len(cat.items) = 1
    /\ ~cat.hasMore

\* C17 as stated: a /search request whose query is empty or only whitespace
\* is answered with the empty result list and hasMore = false rather than
\* with a failure, and no adapter is called.
C17_EmptyQuery ==
    sPc = "done" /\ trim(sQuery) = <<>> =>
        /\ sResponse.status = 200
        /\ sResponse.results = <<>>
        /\ sResponse.hasMore = FALSE
        /\ \A a \in AdapterSet : sCalls[a].state = "idle"

\* C18: for page p and a feed of n entries, searchStandardEbooks returns
\* exactly the entries (p-1)*25 + 1 .. min(p*25, n) in feed order, and
\* hasMore is true exactly when p*25 < n, that is exactly when page p + 1
\* is not empty.
C18_EbooksPaging ==
    se.pc = "done" /\ ~se.failed =>
        LET p == se.page
            n == Len(se.entries)
            last == IF p * 25 < n THEN p * 25 ELSE n
            first == (p - 1) * 25 + 1
        IN  /\ Len(se.out.results) = (IF last >= first THEN last - first + 1 ELSE 0)
            /\ \A i \in 1..Len(se.out.results) :
                   se.out.results[i] = se.entries[first + i - 1]
            /\ se.out.hasMore <=> p * 25 < n
            /\ se.out.hasMore <=> searchStandardEbooks(se.entries, p + 1).results # <<>>

\* page 2 of a feed of exactly 50 entries: 25 results and no further page
C18_Witness ==
    /\ se.pc = "done"
    /\ ~se.failed
    /\ se.page = 2
    /\ Len(se.entries) = 50
    /\ Len(se.out.results) = 25
    /\ ~se.out.hasMore

\* C19: searchWikisource requests offset (page-1)*20 with limit 20 and
\* reports hasMore true exactly when the offset plus the number of returned
\* hits is below the total the wiki reports, a missing total counting as 0.
C19_WikiPaging ==
    /\ ws.pc \in {"waiting", "done"} =>
           ws.srlimit = 20 /\ ws.sroffset = (ws.page - 1) * 20
    /\ ws.pc = "done" /\ ~ws.failed =>
           /\ Len(ws.items) = ws.answer.returned
           /\ ws.answer.total.present =>
                  (ws.hasMore <=> ws.sroffset + ws.answer.returned < ws.answer.total.v)
           /\ ~ws.answer.total.present => ~ws.hasMore

\* page 2 answered with 20 hits of a total of exactly 40: no further page
C19_Witness ==
    /\ ws.pc = "done"
    /\ ~ws.failed
    /\ ws.page = 2
    /\ ws.answer = [returned |-> 20, total |-> [present |-> TRUE, v |-> 40]]
    /\ ~ws.hasMore

\* the url holds the substring "index" or the substring "contents"
HoldsIndexWord(u) ==
    \E i \in 1..Len(u) :
        \/ i + 4 <= Len(u) /\ SubSeq(u, i, i + 4) = <<105, 110, 100, 101, 120>>
        \/ i + 7 <= Len(u) /\ SubSeq(u, i, i + 7) = <<99, 111, 110, 116, 101, 110, 116, 115>>

\* C20: in the catalog-only /download-best, when the url of the selected
\* candidate holds "index" or "contents" the candidate is rejected: the
\* file at that url is never requested and none of its bytes are sent.
C20_IndexUrlRejected ==
    /\ \A u \in co.fetched : ~HoldsIndexWord(u)
    /\ ~HoldsIndexWord(co.sentFrom)
    /\ co.pc # "off" /\ HoldsIndexWord(co.fileUrl) =>
           /\ co.pc = "done"
           /\ co.status = 400
           /\ co.fetched = {}
           /\ co.sentFrom = <<>>

\* the selected url holds "contents": answered 400, nothing requested
C20_Witness ==
    /\ co.pc = "done"
    /\ co.fileUrl = <<99, 111, 110, 116, 101, 110, 116, 115, 47, 98>>
    /\ co.status = 400
    /\ co.fetched = {}

\* C21: in the catalog-only /download-best a downloaded file of fewer than
\* 15,000 bytes is never delivered, the answer being an error without the
\* bytes, and a file of 15,000 bytes or more passes the size check.
C21_SizeFloor ==
    co.pc = "done" /\ co.fetched # {} /\ co.error # "File download failed" =>
        /\ co.size < 15000 =>
               /\ co.status = 400
               /\ co.error = "File too small"
               /\ co.sentBytes = 0
               /\ co.sentFrom = <<>>
        /\ co.size >= 15000 =>
               /\ co.error # "File too small"
               /\ co.status = 200 => co.sentBytes = co.size /\ co.sentFrom = co.fileUrl
               /\ co.status # 200 => co.status = 500 /\ co.error = "TypeError"

\* a file of exactly 15,000 bytes was delivered
C21_Witness ==
    /\ co.pc = "done"
    /\ co.size = 15000
    /\ co.status = 200
    /\ co.sentBytes = 15000

\* the positions of the links that survive the filter of pickBestLink: not
\* empty, not the current page, in no service namespace
Survivors(currentTitle, links) ==
    {i \in 1..Len(links) :
        /\ trim(links[i]) # <<>>
        /\ trim(links[i]) # trim(currentTitle)
        /\ ~HasBadPrefix(trim(links[i]))}

Contribution(call) == IF call.state = "fulfilled" THEN call.results ELSE <<>>

\* C23: in the sequential /search over the catalog and the OPDS feed, the
\* failure of any single adapter, the catalog as well as the feed, is
\* isolated: the failing adapter contributes no item and the search still
\* succeeds with the items of the other adapter.
C23_Isolation ==
    sq.pc = "done" /\ trim(sq.q) # <<>> =>
        /\ sq.status = 200
        /\ sq.sent = Contribution(sq.g) \o Contribution(sq.se)
        /\ sq.sentMore = ((sq.g.state = "fulfilled" /\ sq.g.hasMore)
                            \/ (sq.se.state = "fulfilled" /\ sq.se.hasMore))

\* what getWikisourcePlain makes of the k-th page the upstream answered
\* with: the page's own title, the title asked for when it has none, and
\* the trimmed extract
PlainOf(k) ==
    [title |-> IF dlPages[k].page.title # <<>> THEN dlPages[k].page.title
               ELSE dlPages[k].asked,
     text |-> trim(dlPages[k].page.extract)]

\* the page in hand: the last one fetched, the one before it when the last
\* fetch did not advance
InHand == IF dlExit = "stuck" THEN Len(dlPages) - 1 ELSE Len(dlPages)

\* C24: throughout downloadWikisourceSmart the pair (resolvedTitle, text)
\* belongs to one and the same fetched page; after any hops, the abandoned
\* ones included, the file delivered carries the title of the page whose
\* text it holds; a page that is a work on the first fetch is delivered
\* without any link-list fetch.
C24_OnePage ==
    Len(dlPages) > 0 =>
        /\ InHand \in 1..Len(dlPages)
        /\ dlResolvedTitle = PlainOf(InHand).title
        /\ dlText = PlainOf(InHand).text
        /\ dlResponse.kind = "file" =>
               /\ dlResponse.title = PlainOf(InHand).title
               /\ dlResponse.bytes = PlainOf(InHand).text
        /\ ~looksLikeIndexOrList(PlainOf(1).title, PlainOf(1).text) =>
               /\ dlPc = "done"
               /\ dlLinkFetches = 0
               /\ dlRefetches = 0
               /\ Len(dlPages) = 1
               /\ dlResponse = WikiResponse(PlainOf(1).title, PlainOf(1).text)

\* one hop from an index page: the link asked for was answered with a page
\* of another title, and the file carries that page's title and text
C24_Witness ==
    /\ dlPc = "done"
    /\ dlHop = 1
    /\ Len(dlPages) = 2
    /\ dlLinkFetches = 1
    /\ dlResponse.kind = "file"
    /\ dlResponse.title = PlainOf(2).title
    /\ dlResponse.bytes = PlainOf(2).text
    /\ dlPages[2].asked # PlainOf(2).title
    /\ PlainOf(1).text # PlainOf(2).text

\* the response the outcomes of the three calls determine: the items of
\* the fulfilled calls in the order catalog, wiki-ru, wiki-ua, the catalog
\* moved behind the wikis when the pattern of hasCyr matches the query
ByOutcomes ==
    LET g == FulfilledItems("gutenberg")
        ru == FulfilledItems("wsrc-ru")
        ua == FulfilledItems("wsrc-ua")
    IN  [status |-> 200,
         hasMore |-> \E a \in AdapterSet : sCalls[a].state = "fulfilled" /\ sCalls[a].hasMore,
         results |-> IF hasCyr(trim(sQuery)) THEN ru \o ua \o g ELSE g \o ru \o ua]

\* C25: the /search response is a function of the adapters' outcomes only,
\* not of the order in which the concurrent calls settle: for every order
\* the result list is the same permutation of the concatenation (catalog,
\* wiki-ru, wiki-ua) of the fulfilled calls' items, no item lost or
\* duplicated, and hasMore is the same.
C25_SettleOrderFree ==
    sPc = "done" /\ trim(sQuery) # <<>> =>
        /\ Len(sOrder) = 3
        /\ {sOrder[i] : i \in 1..3} = AdapterSet
        /\ sResponse = ByOutcomes

\* the calls settled in the reverse of the order they were made in, each
\* with items, and the catalog's items still come first
C25_Witness ==
    /\ sPc = "done"
    /\ sOrder = <<"wsrc-ua", "wsrc-ru", "gutenberg">>
    /\ \A a \in AdapterSet : Len(sCalls[a].items) = 2
    /\ ~hasCyr(sQuery)
    /\ sResponse.results =
           sCalls["gutenberg"].items \o sCalls["wsrc-ru"].items \o sCalls["wsrc-ua"].items

====
